---- MODULE Spec2Model ----
(***************************************************************************)
(* A model of the seat-and-fare backend (src/app.py): the fare quote       *)
(* (quote_price_segmented over the routes and fares tables), the neighbor  *)
(* rule of a seat write, and the trip life cycle (trip start, end trip)    *)
(* over the app_state, trips, seats, walk_on_sales, consignments and       *)
(* consignment_photos tables.  Every request handler is one atomic action. *)
(***************************************************************************)
EXTENDS Integers, Sequences, FiniteSets, TLC

VARIABLES
    routes,             \* table routes: rows [id, name, stops]
    fares,              \* table fares: rows [route, from_stop, to_stop, price]
    quote,              \* the answer of the last /fiyat request, NoQuote otherwise
    app_state,          \* table app_state: rows [id, active_trip_id]
    trips,              \* table trips: rows [id, route]
    seats,              \* table seats: rows [trip_id, seat_no, stop, gender, pair_ok]
    walk_on_sales,      \* table walk_on_sales: rows [id, trip_id, from_stop, to_stop]
    consignments,       \* table consignments: rows [id, trip_id, from_stop, to_stop]
    consignment_photos, \* table consignment_photos: rows [id, consignment_id, file_path]
    files,              \* the file names present in UPLOAD_DIR
    resp,               \* the answer of the last request: [op, code, msg, rows]
    inflight,           \* the requests that have read the tables and not yet written
    CACHE,              \* speedlimit.CACHE: bucket -> entry [ts, limit, highway, source]
    clock,              \* time.time(), in seconds
    speed,              \* the answer of the last /api/speedlimit request
    session,            \* the browser's session cookie: [auth_ok, csrf_token]
    issued,             \* the number of CSRF tokens issued so far
    stop_logs,          \* table stop_logs: rows [id, trip_id, stop_name, event]
    route_stop_coords,  \* table route_stop_coords: rows [route, stop, lat, lng]
    bag_files           \* the files under storage/bags: [name, ext]

fareVars == <<routes, fares, quote>>

tripVars == <<app_state, trips, seats, walk_on_sales, consignments,
              consignment_photos, files, resp>>

raceVars == <<inflight>>
speedVars == <<CACHE, clock, speed>>
authVars == <<session, issued>>
logVars == <<stop_logs, route_stop_coords>>
bagVars == <<bag_files>>

\* what the fare, trip, seat and consignment handlers served one at a time
\* leave alone, and what the two-step handlers leave alone
notRaceVars == <<speedVars, authVars, logVars, bagVars>>
auxVars == <<raceVars, notRaceVars>>

vars == <<routes, fares, quote, app_state, trips, seats, walk_on_sales,
          consignments, consignment_photos, files, resp, inflight,
          CACHE, clock, speed, session, issued, stop_logs, route_stop_coords,
          bag_files>>

(***************************** bounds ***************************************)
\* rows the fares table may hold in the explored states
MaxFares == 3
\* rows ever inserted into the routes table
MaxRouteId == 1
\* rows ever inserted into the trips table
MaxTrips == 2
\* rows the walk_on_sales, consignments and consignment_photos tables may hold
MaxWalkons == 1
MaxConsignments == 1
MaxPhotos == 2
\* files ever saved into UPLOAD_DIR by the interleaved uploads
MaxFiles == MaxPhotos
\* the clock advances by TickS seconds at a time, MaxTicks times
TickS == 300
MaxTicks == 3
\* rows the stop_logs table may hold
MaxLogs == 2
\* CSRF tokens ever issued
MaxTokens == 2
\* requests that may be between their read and their write at one time
MaxInflight == 2
\* the largest rowid the copies of built-in routes may take
MaxBuiltinRowId == 3

(***************************** values ***************************************)
\* SQL NULL / Python None of a trip id (trip ids start at 1; "if not tid")
NULL == 0
\* no request answered yet
NoResp == [op |-> "", code |-> 0, msg |-> "", rows |-> 0]
\* an answer: the handler, the HTTP status, the reason of a refusal (or what
\* the handler met and passed over on the way to a 200), and the
\* number of rows the request's statements inserted, updated or deleted
Resp(op, code, msg, rows) == [op |-> op, code |-> code, msg |-> msg, rows |-> rows]
\* Python None of an Optional[float] price (prices of the model are >= 0)
NoPrice == -1
\* the buckets of get_bucket the lookups fall into
Buckets == {"b1", "b2"}
\* CACHE.get(bucket) of a bucket never looked up: None
NoEntry == [ts |-> -1, limit |-> 0, highway |-> "", source |-> ""]
\* no /api/speedlimit answer yet
NoSpeed == [bucket |-> "", limit |-> 0, highway |-> "", source |-> "",
            from_cache |-> FALSE, requests |-> 0, code |-> 0]
\* a cleared session: no auth_ok, no csrf_token (token 0 is no token)
NoSession == [auth_ok |-> FALSE, csrf_token |-> 0]
\* no /fiyat answer is on display
NoQuote == [route |-> "", from_stop |-> "", to_stop |-> "", price |-> NoPrice, method |-> ""]

\* ROUTE_STOPS, cut to the first stops of two of the built-in routes
ROUTE_STOPS_NAMES == {"Denizli - Istanbul", "Denizli - Izmir"}
ROUTE_STOPS ==
    [n \in ROUTE_STOPS_NAMES |->
        IF n = "Denizli - Istanbul"
        THEN <<"Denizli otogar", "Saraykoy", "Buldan">>
        ELSE <<"Denizli otogar", "Saraykoy", "Alasehir">>]

\* the route names, stops and prices requests are made with
RouteInputs == {"Denizli - Istanbul", "Ozel Hat"}
FareStopInputs == {"Denizli otogar", "Saraykoy", "Buldan"}
StopInputs == FareStopInputs \cup {"Alasehir"}
PriceInputs == {10}
\* the duraklar field of /hat-ekle, already split at commas and line ends
StopsTextInputs ==
    { <<"", "">>,
      <<"Buldan", "", "Saraykoy", "Buldan", "Denizli otogar">> }

(***************************** helpers **************************************)
Max(S) == CHOOSE x \in S : \A y \in S : y <= x

\* the rowid SQLite gives a row inserted without one: the largest rowid + 1
NewRowId(rows) == IF rows = {} THEN 1 ELSE Max({r.id : r \in rows}) + 1

\* list.index(x): the first position of x (x is in the list)
Index(list, x) ==
    CHOOSE i \in 1..Len(list) : list[i] = x /\ \A k \in 1..(i - 1) : list[k] # x

InList(list, x) == \E i \in 1..Len(list) : list[i] = x

\* parse_stops: the non-empty parts, in order
parse_stops(parts) == SelectSeq(parts, LAMBDA p : p # "")

\* get_stops that never looks into the routes table
get_stops_ignores_db(route_name) ==
    IF route_name \in DOMAIN ROUTE_STOPS THEN ROUTE_STOPS[route_name]
    ELSE ROUTE_STOPS["Denizli - Istanbul"]

\* get_stops: the database route of that name if there is one, else the
\* built-in route of that name, else the built-in "Denizli - Istanbul"
get_stops(route_name) ==
    LET rows == {r \in routes : r.name = route_name} IN
    IF rows # {} THEN (CHOOSE r \in rows : TRUE).stops
    ELSE IF route_name \in DOMAIN ROUTE_STOPS THEN ROUTE_STOPS[route_name]
    ELSE ROUTE_STOPS["Denizli - Istanbul"]

list_stops_for_route(route_name) == get_stops(route_name)

\* fetch_fare_exact: the price of the row (route, from_stop, to_stop), or None
fetch_fare_exact(route, from_stop, to_stop) ==
    LET rows == {f \in fares : f.route = route /\ f.from_stop = from_stop
                                /\ f.to_stop = to_stop} IN
    IF rows = {} THEN NoPrice ELSE (CHOOSE f \in rows : TRUE).price

\* the loop with "total = price" in place of "total += price"
RECURSIVE SumSegments_assign(_, _, _, _, _)
SumSegments_assign(route, stops, k, j, total) ==
    IF k >= j THEN <<total, "summed">>
    ELSE LET rows == {f \in fares : f.route = route /\ f.from_stop = stops[k]
                                     /\ f.to_stop = stops[k + 1]} IN
         IF rows = {} THEN <<NoPrice, "segment-missing">>
         ELSE SumSegments_assign(route, stops, k + 1, j, (CHOOSE f \in rows : TRUE).price)

\* the loop with "continue" in place of the return at a missing segment
RECURSIVE SumSegments_skip_missing(_, _, _, _, _)
SumSegments_skip_missing(route, stops, k, j, total) ==
    IF k >= j THEN <<total, "summed">>
    ELSE LET rows == {f \in fares : f.route = route /\ f.from_stop = stops[k]
                                     /\ f.to_stop = stops[k + 1]} IN
         IF rows = {} THEN SumSegments_skip_missing(route, stops, k + 1, j, total)
         ELSE SumSegments_skip_missing(route, stops, k + 1, j,
                                       total + (CHOOSE f \in rows : TRUE).price)

\* the loop of quote_price_segmented: for k in range(i, j), with total so far
RECURSIVE SumSegments(_, _, _, _, _)
SumSegments(route, stops, k, j, total) ==
    IF k >= j THEN <<total, "summed">>
    ELSE LET rows == {f \in fares : f.route = route /\ f.from_stop = stops[k]
                                     /\ f.to_stop = stops[k + 1]} IN
         IF rows = {} THEN <<NoPrice, "segment-missing">>
         ELSE SumSegments(route, stops, k + 1, j,
                          total + (CHOOSE f \in rows : TRUE).price)

\* the quote with the exact-match row looked up before the positions are compared
quote_price_segmented_exact_first(route, from_stop, to_stop) ==
    LET stops == list_stops_for_route(route) IN
    IF Len(stops) = 0 \/ ~InList(stops, from_stop) \/ ~InList(stops, to_stop)
    THEN <<NoPrice, "missing-stops">>
    ELSE LET i == Index(stops, from_stop)
             j == Index(stops, to_stop)
             exact == fetch_fare_exact(route, from_stop, to_stop) IN
         IF exact # NoPrice THEN <<exact, "direct">>
         ELSE IF i = j THEN <<0, "same-stop">>
         ELSE IF i > j THEN <<NoPrice, "wrong-order">>
         ELSE SumSegments(route, stops, i, j, 0)

\* the quote with the segments summed first and the exact-match row as the fallback
quote_price_segmented_sum_first(route, from_stop, to_stop) ==
    LET stops == list_stops_for_route(route) IN
    IF Len(stops) = 0 \/ ~InList(stops, from_stop) \/ ~InList(stops, to_stop)
    THEN <<NoPrice, "missing-stops">>
    ELSE LET i == Index(stops, from_stop)
             j == Index(stops, to_stop) IN
         IF i = j THEN <<0, "same-stop">>
         ELSE IF i > j THEN <<NoPrice, "wrong-order">>
         ELSE LET summed == SumSegments(route, stops, i, j, 0)
                  exact == fetch_fare_exact(route, from_stop, to_stop) IN
              IF summed[2] = "summed" THEN summed
              ELSE IF exact # NoPrice THEN <<exact, "direct">>
              ELSE summed

quote_price_segmented(route, from_stop, to_stop) ==
    LET stops == list_stops_for_route(route) IN
    IF Len(stops) = 0 \/ ~InList(stops, from_stop) \/ ~InList(stops, to_stop)
    THEN <<NoPrice, "missing-stops">>
    ELSE LET i == Index(stops, from_stop)
             j == Index(stops, to_stop) IN
         IF i = j THEN <<0, "same-stop">>
         ELSE IF i > j THEN <<NoPrice, "wrong-order">>
         ELSE LET exact == fetch_fare_exact(route, from_stop, to_stop) IN
              IF exact # NoPrice THEN <<exact, "direct">>
              ELSE SumSegments(route, stops, i, j, 0)

(***************************** requests *************************************)
\* POST /hat-ekle
add_route(name, stops_text) ==
    /\ Len(stops_text) > 0
    /\ NewRowId(routes) <= MaxRouteId
    /\ routes' = {r \in routes : r.name # name}
                 \cup {[id |-> NewRowId(routes), name |-> name,
                        stops |-> parse_stops(stops_text)]}
    /\ quote' = NoQuote
    /\ UNCHANGED <<fares, tripVars, auxVars>>

\* POST /hat/<rid>/sil
route_delete(rid) ==
    /\ routes' = {r \in routes : r.id # rid}
    /\ quote' = NoQuote
    /\ UNCHANGED <<fares, tripVars, auxVars>>

\* POST /fiyat-g with a route, both stops and a price
fare_admin(route, from_stop, to_stop, price) ==
    /\ LET kept == {f \in fares : ~(f.route = route /\ f.from_stop = from_stop
                                     /\ f.to_stop = to_stop)} IN
       /\ Cardinality(kept) < MaxFares
       /\ fares' = kept \cup {[route |-> route, from_stop |-> from_stop,
                               to_stop |-> to_stop, price |-> price]}
    /\ quote' = NoQuote
    /\ UNCHANGED <<routes, tripVars, auxVars>>

\* GET /fiyat with a route and both stops
fare_query(route, from_stop, to_stop) ==
    /\ LET q == quote_price_segmented(route, from_stop, to_stop) IN
       quote' = [route |-> route, from_stop |-> from_stop, to_stop |-> to_stop,
                 price |-> q[1], method |-> q[2]]
    /\ UNCHANGED <<routes, fares, tripVars, auxVars>>

(***************************** the fare specification ***********************)
\* the tables as ensure_schema leaves them, and no file uploaded
InitTables ==
    /\ routes = {}
    /\ fares = {}
    /\ quote = NoQuote
    /\ app_state = {[id |-> 1, active_trip_id |-> NULL]}
    /\ trips = {}
    /\ seats = {}
    /\ walk_on_sales = {}
    /\ consignments = {}
    /\ consignment_photos = {}
    /\ files = {}
    /\ resp = NoResp
    /\ inflight = {}
    /\ CACHE = [b \in Buckets |-> NoEntry]
    /\ clock = 0
    /\ speed = NoSpeed
    /\ session = NoSession
    /\ issued = 0
    /\ stop_logs = {}
    /\ route_stop_coords = {}
    /\ bag_files = {}

InitFare == InitTables

NextFare ==
    \/ \E t \in StopsTextInputs : add_route("Ozel Hat", t)
    \/ \E rid \in 1..MaxRouteId : route_delete(rid)
    \/ \E r \in RouteInputs, a \in FareStopInputs, b \in FareStopInputs, p \in PriceInputs :
          fare_admin(r, a, b, p)
    \/ \E r \in RouteInputs, a \in StopInputs, b \in StopInputs : fare_query(r, a, b)

SpecFare == InitFare /\ [][NextFare]_vars

(***************************** trips and seats ******************************)
\* NEIGHBORS: the seat pairs that sit side by side
NEIGHBOR_PAIRS ==
    { <<3, 4>>, <<7, 8>>, <<11, 12>>, <<15, 16>>, <<19, 20>>, <<23, 24>>,
      <<27, 28>>, <<33, 34>>, <<37, 38>>, <<41, 42>>, <<45, 46>>, <<49, 50>>,
      <<53, 54>> }
NEIGHBORS ==
    [s \in {q[1] : q \in NEIGHBOR_PAIRS} \cup {q[2] : q \in NEIGHBOR_PAIRS} |->
        IF \E q \in NEIGHBOR_PAIRS : q[1] = s
        THEN (CHOOSE q \in NEIGHBOR_PAIRS : q[1] = s)[2]
        ELSE (CHOOSE q \in NEIGHBOR_PAIRS : q[2] = s)[1]]

\* the values requests are made with
TripRouteInputs == {"Denizli - Istanbul"}
GenderInputs == {"bay", "bayan", "", " Bayan", "erkek"}
SeatStopInputs == {"Saraykoy", "Alasehir"}

\* str.strip().lower() on the strings of the model
StripLower(val) ==
    IF val = " Bayan" THEN "bayan" ELSE val

norm_gender(val) ==
    LET v == StripLower(val) IN
    IF v \in {"bay", "bayan", ""} THEN v ELSE ""

\* get_active_trip: active_trip_id of the row with id 1, None without that row
get_active_trip ==
    LET rows == {r \in app_state : r.id = 1} IN
    IF rows = {} THEN NULL ELSE (CHOOSE r \in rows : TRUE).active_trip_id

\* set_active_trip with an INSERT in place of the UPDATE
set_active_trip_insert(trip_id) ==
    app_state \cup {[id |-> NewRowId(app_state), active_trip_id |-> trip_id]}

\* set_active_trip: UPDATE app_state SET active_trip_id=? (every row)
set_active_trip(trip_id) ==
    {[r EXCEPT !.active_trip_id = trip_id] : r \in app_state}

\* neighbor_rule_ok that reads the writer's flag only, not the neighbor's
neighbor_rule_ok_own_flag_only(trip_id, seat_no, gender, pair_ok) ==
    IF seat_no \notin DOMAIN NEIGHBORS \/ gender = "" THEN TRUE
    ELSE LET nb == NEIGHBORS[seat_no]
             rows == {r \in seats : r.trip_id = trip_id /\ r.seat_no = nb} IN
         IF rows = {} THEN TRUE
         ELSE LET row == CHOOSE r \in rows : TRUE
                  nb_gender == norm_gender(row.gender) IN
              ~(/\ gender \in {"bay", "bayan"}
                /\ nb_gender \in {"bay", "bayan"}
                /\ gender # nb_gender
                /\ ~pair_ok)

\* neighbor_rule_ok, its verdict (the message left out)
\* the rule applied to seats that hold no row yet, and waived for a rewrite
neighbor_rule_ok_new_rows_only(trip_id, seat_no, gender, pair_ok) ==
    IF seat_no \notin DOMAIN NEIGHBORS \/ gender = "" THEN TRUE
    ELSE IF \E r \in seats : r.trip_id = trip_id /\ r.seat_no = seat_no THEN TRUE
    ELSE LET nb == NEIGHBORS[seat_no]
             rows == {r \in seats : r.trip_id = trip_id /\ r.seat_no = nb} IN
         IF rows = {} THEN TRUE
         ELSE LET row == CHOOSE r \in rows : TRUE
                  nb_gender == norm_gender(row.gender)
                  nb_pair_ok == row.pair_ok # 0 IN
              ~(/\ gender \in {"bay", "bayan"}
                /\ nb_gender \in {"bay", "bayan"}
                /\ gender # nb_gender
                /\ ~(pair_ok \/ nb_pair_ok))

neighbor_rule_ok(trip_id, seat_no, gender, pair_ok) ==
    IF seat_no \notin DOMAIN NEIGHBORS \/ gender = "" THEN TRUE
    ELSE LET nb == NEIGHBORS[seat_no]
             rows == {r \in seats : r.trip_id = trip_id /\ r.seat_no = nb} IN
         IF rows = {} THEN TRUE
         ELSE LET row == CHOOSE r \in rows : TRUE
                  nb_gender == norm_gender(row.gender)
                  nb_pair_ok == row.pair_ok # 0 IN
              ~(/\ gender \in {"bay", "bayan"}
                /\ nb_gender \in {"bay", "bayan"}
                /\ gender # nb_gender
                /\ ~(pair_ok \/ nb_pair_ok))

validate_stop_for_active_trip(stop) ==
    LET tid == get_active_trip
        rows == {t \in trips : t.id = tid} IN
    IF tid = NULL \/ rows = {} THEN FALSE
    ELSE InList(get_stops((CHOOSE t \in rows : TRUE).route), stop)

\* POST /sefer-baslat, the session's route being `route`
trip_start(route) ==
    LET trip_id == NewRowId(trips) IN
    /\ trip_id <= MaxTrips
    /\ trips' = trips \cup {[id |-> trip_id, route |-> route]}
    /\ app_state' = set_active_trip(trip_id)
    /\ resp' = Resp("trip_start", 302, "", 1)
    /\ UNCHANGED <<seats, walk_on_sales, consignments, consignment_photos, files, fareVars, auxVars>>

\* end_trip that keeps the walk-on rows
end_trip_keeps_walkons ==
    LET tid == get_active_trip
        gone == {r \in seats : r.trip_id = tid} IN
    /\ seats' = IF tid # NULL THEN seats \ gone ELSE seats
    /\ app_state' = {IF r.id = 1 THEN [r EXCEPT !.active_trip_id = NULL] ELSE r : r \in app_state}
    /\ resp' = Resp("end_trip", 302, "", IF tid # NULL THEN Cardinality(gone) ELSE 0)
    /\ UNCHANGED <<trips, walk_on_sales, consignments, consignment_photos, files, fareVars, auxVars>>

\* end_trip that deletes the trip's consignments as well
end_trip_deletes_consignments ==
    LET tid == get_active_trip
        gone == {r \in seats : r.trip_id = tid} \cup {w \in walk_on_sales : w.trip_id = tid} IN
    /\ seats' = IF tid # NULL THEN seats \ gone ELSE seats
    /\ walk_on_sales' = IF tid # NULL THEN walk_on_sales \ gone ELSE walk_on_sales
    /\ consignments' = {c \in consignments : c.trip_id # tid}
    /\ app_state' = {IF r.id = 1 THEN [r EXCEPT !.active_trip_id = NULL] ELSE r : r \in app_state}
    /\ resp' = Resp("end_trip", 302, "", IF tid # NULL THEN Cardinality(gone) ELSE 0)
    /\ UNCHANGED <<trips, consignment_photos, files, fareVars, auxVars>>

\* POST /end-trip
end_trip ==
    LET tid == get_active_trip
        gone == {r \in seats : r.trip_id = tid} \cup {w \in walk_on_sales : w.trip_id = tid} IN
    /\ seats' = IF tid # NULL THEN seats \ gone ELSE seats
    /\ walk_on_sales' = IF tid # NULL THEN walk_on_sales \ gone ELSE walk_on_sales
    /\ app_state' = {IF r.id = 1 THEN [r EXCEPT !.active_trip_id = NULL] ELSE r : r \in app_state}
    /\ resp' = Resp("end_trip", 302, "", IF tid # NULL THEN Cardinality(gone) ELSE 0)
    /\ UNCHANGED <<trips, consignments, consignment_photos, files, fareVars, auxVars>>

\* POST /api/seat
api_seat_post(seat_no, stop_in, gender_in, pair_ok_in) ==
    LET tid == get_active_trip
        gender == norm_gender(gender_in)
        row == [trip_id |-> tid, seat_no |-> seat_no, stop |-> stop_in,
                gender |-> gender, pair_ok |-> IF pair_ok_in THEN 1 ELSE 0] IN
    /\ IF tid = NULL
       THEN resp' = Resp("api_seat", 400, "no-active-trip", 0) /\ UNCHANGED seats
       ELSE IF stop_in # "" /\ ~validate_stop_for_active_trip(stop_in)
       THEN resp' = Resp("api_seat", 400, "stop-not-on-route", 0) /\ UNCHANGED seats
       ELSE IF ~neighbor_rule_ok(tid, seat_no, gender, pair_ok_in)
       THEN resp' = Resp("api_seat", 400, "neighbor", 0) /\ UNCHANGED seats
       ELSE /\ seats' = {r \in seats : ~(r.trip_id = tid /\ r.seat_no = seat_no)}
                        \cup {row}
            /\ resp' = Resp("api_seat", 200, "", 1)
    /\ UNCHANGED <<app_state, trips, walk_on_sales, consignments, consignment_photos,
                   files, fareVars, auxVars>>

\* DELETE /api/seat
api_seat_delete(seat_no) ==
    LET tid == get_active_trip
        gone == {r \in seats : r.trip_id = tid /\ r.seat_no = seat_no} IN
    /\ IF tid = NULL
       THEN resp' = Resp("api_seat_delete", 400, "no-active-trip", 0) /\ UNCHANGED seats
       ELSE /\ seats' = seats \ gone
            /\ resp' = Resp("api_seat_delete", 200, "", Cardinality(gone))
    /\ UNCHANGED <<app_state, trips, walk_on_sales, consignments, consignment_photos,
                   files, fareVars, auxVars>>

\* POST /api/walkon with both stops given
\* the walk-on sale that validates its boarding stop only
api_walkon_post_from_only(from_stop, to_stop) ==
    LET tid == get_active_trip IN
    /\ IF tid = NULL
       THEN resp' = Resp("api_walkon", 400, "no-active-trip", 0) /\ UNCHANGED walk_on_sales
       ELSE IF ~validate_stop_for_active_trip(from_stop)
       THEN resp' = Resp("api_walkon", 400, "stop-not-on-route", 0)
            /\ UNCHANGED walk_on_sales
       ELSE /\ Cardinality(walk_on_sales) < MaxWalkons
            /\ walk_on_sales' = walk_on_sales \cup
                   {[id |-> NewRowId(walk_on_sales), trip_id |-> tid,
                     from_stop |-> from_stop, to_stop |-> to_stop]}
            /\ resp' = Resp("api_walkon", 200, "", 1)
    /\ UNCHANGED <<app_state, trips, seats, consignments, consignment_photos,
                   files, fareVars, auxVars>>

api_walkon_post(from_stop, to_stop) ==
    LET tid == get_active_trip IN
    /\ IF tid = NULL
       THEN resp' = Resp("api_walkon", 400, "no-active-trip", 0) /\ UNCHANGED walk_on_sales
       ELSE IF ~validate_stop_for_active_trip(from_stop)
               \/ ~validate_stop_for_active_trip(to_stop)
       THEN resp' = Resp("api_walkon", 400, "stop-not-on-route", 0)
            /\ UNCHANGED walk_on_sales
       ELSE /\ Cardinality(walk_on_sales) < MaxWalkons
            /\ walk_on_sales' = walk_on_sales \cup
                   {[id |-> NewRowId(walk_on_sales), trip_id |-> tid,
                     from_stop |-> from_stop, to_stop |-> to_stop]}
            /\ resp' = Resp("api_walkon", 200, "", 1)
    /\ UNCHANGED <<app_state, trips, seats, consignments, consignment_photos,
                   files, fareVars, auxVars>>

\* POST /api/consignments with an item name
api_consignments_post(from_stop, to_stop) ==
    LET tid == get_active_trip IN
    /\ IF tid = NULL
       THEN resp' = Resp("api_consignments", 400, "no-active-trip", 0)
            /\ UNCHANGED consignments
       ELSE IF \/ (from_stop # "" /\ ~validate_stop_for_active_trip(from_stop))
               \/ (to_stop # "" /\ ~validate_stop_for_active_trip(to_stop))
       THEN resp' = Resp("api_consignments", 400, "stop-not-on-route", 0)
            /\ UNCHANGED consignments
       ELSE /\ Cardinality(consignments) < MaxConsignments
            /\ consignments' = consignments \cup
                   {[id |-> NewRowId(consignments), trip_id |-> tid,
                     from_stop |-> from_stop, to_stop |-> to_stop]}
            /\ resp' = Resp("api_consignments", 200, "", 1)
    /\ UNCHANGED <<app_state, trips, seats, walk_on_sales, consignment_photos,
                   files, fareVars, auxVars>>

\* the name of an uploaded file: c<cid>_<timestamp>_<random>, here a fresh number
NewFileName ==
    Max(files \cup {p.file_path : p \in consignment_photos}
              \cup {q.file_path : q \in inflight} \cup {0}) + 1

\* POST /api/consignments/<cid>/photos with a file of an allowed type
api_cons_photos_post(cid) ==
    LET tid == get_active_trip
        fname == NewFileName
        row == {c \in consignments : c.id = cid /\ c.trip_id = tid} IN
    /\ IF tid = NULL
       THEN resp' = Resp("api_cons_photos", 400, "no-active-trip", 0)
            /\ UNCHANGED <<consignment_photos, files>>
       ELSE IF row = {}
       THEN /\ files' = (files \cup {fname}) \ {fname}
            /\ resp' = Resp("api_cons_photos", 404, "not-found", 0)
            /\ UNCHANGED consignment_photos
       ELSE /\ Cardinality(consignment_photos) < MaxPhotos
            /\ files' = files \cup {fname}
            /\ consignment_photos' = consignment_photos \cup
                   {[id |-> NewRowId(consignment_photos), consignment_id |-> cid,
                     file_path |-> fname]}
            /\ resp' = Resp("api_cons_photos", 200, "", 1)
    /\ UNCHANGED <<app_state, trips, seats, walk_on_sales, consignments, fareVars, auxVars>>

(***************************** the trip specification ***********************)
Init == InitTables

Next ==
    \/ \E r \in TripRouteInputs : trip_start(r)
    \/ end_trip
    \/ \E s \in {3, 4}, st \in SeatStopInputs : api_seat_post(s, st, "bay", FALSE)
    \/ \E s \in {3, 4} : api_seat_delete(s)
    \/ \E a \in SeatStopInputs : api_walkon_post("Denizli otogar", a)
    \/ \E a \in SeatStopInputs : api_consignments_post("", a)
    \/ \E cid \in 1..MaxConsignments : api_cons_photos_post(cid)

Spec == Init /\ [][Next]_vars

(***************************** the seat specification ***********************)
\* seat writes on the pair 3/4 and on seat 1, which has no neighbor: each
\* gender without the flag on both seats of the pair, the flag with "bay" on
\* seat 3 and with "bayan" on seat 4, no gender and unnormalized genders
SeatWriteInputs ==
    ({3, 4} \X {"bay", "bayan"} \X {FALSE})
    \cup {<<3, "bay", TRUE>>, <<4, "bayan", TRUE>>}
    \cup ({3} \X {"", " Bayan", "erkek"} \X {FALSE})
    \cup {<<1, "bay", FALSE>>}

InitSeat == InitTables

NextSeat ==
    \/ \E r \in TripRouteInputs : trip_start(r)
    \/ end_trip
    \/ \E w \in SeatWriteInputs : api_seat_post(w[1], "", w[2], w[3])
    \/ \E s \in {1, 3, 4} : api_seat_delete(s)

SpecSeat == InitSeat /\ [][NextSeat]_vars

(***************************** the fare quote: claims ***********************)
Queried == quote # NoQuote

\* the list the quote of a route name is made against: the database route of
\* that name, else the built-in one, else the built-in "Denizli - Istanbul"
QuotedStops ==
    IF \E r \in routes : r.name = quote.route
    THEN (CHOOSE r \in routes : r.name = quote.route).stops
    ELSE IF quote.route \in ROUTE_STOPS_NAMES THEN ROUTE_STOPS[quote.route]
    ELSE ROUTE_STOPS["Denizli - Istanbul"]

\* the stop list a route name has of its own: none for a name that is
\* neither in the routes table nor built-in
OwnStops ==
    IF \E r \in routes : r.name = quote.route
    THEN (CHOOSE r \in routes : r.name = quote.route).stops
    ELSE IF quote.route \in ROUTE_STOPS_NAMES THEN ROUTE_STOPS[quote.route]
    ELSE << >>

OnList(list, s) == s \in {list[k] : k \in 1..Len(list)}

\* the position of a stop on the list (of a name that is on it twice: the first)
Pos(list, s) ==
    CHOOSE i \in 1..Len(list) :
        list[i] = s /\ \A k \in 1..Len(list) : list[k] = s => i <= k

HasFare(r, a, b) ==
    \E f \in fares : f.route = r /\ f.from_stop = a /\ f.to_stop = b

FarePrice(r, a, b) ==
    (CHOOSE f \in fares : f.route = r /\ f.from_stop = a /\ f.to_stop = b).price

\* the fares of the consecutive pairs (s_i, s_i+1) .. (s_j-1, s_j), added up
RECURSIVE SegmentTotal(_, _, _, _)
SegmentTotal(r, list, i, j) ==
    IF j <= i THEN 0
    ELSE SegmentTotal(r, list, i, j - 1) + FarePrice(r, list[j - 1], list[j])

QuoteBothOnList ==
    /\ Queried
    /\ OnList(QuotedStops, quote.from_stop)
    /\ OnList(QuotedStops, quote.to_stop)

QuoteFromPos == Pos(QuotedStops, quote.from_stop)
QuoteToPos == Pos(QuotedStops, quote.to_stop)

AllSegmentsPriced ==
    \A k \in QuoteFromPos..(QuoteToPos - 1) :
        HasFare(quote.route, QuotedStops[k], QuotedStops[k + 1])

\* C1: a quote from s_i to s_j, i < j, with no fare row for (R, s_i, s_j) and a
\* fare row for every consecutive pair between them, is the sum of those
\* segment fares, tagged "summed".
C1_SummedQuote ==
    (/\ QuoteBothOnList
     /\ QuoteFromPos < QuoteToPos
     /\ ~HasFare(quote.route, quote.from_stop, quote.to_stop)
     /\ AllSegmentsPriced)
    => /\ quote.method = "summed"
       /\ quote.price = SegmentTotal(quote.route, QuotedStops, QuoteFromPos, QuoteToPos)

\* a quote across two segments, both priced, no direct row
C1_Witness ==
    /\ QuoteBothOnList
    /\ QuoteToPos - QuoteFromPos >= 2
    /\ ~HasFare(quote.route, quote.from_stop, quote.to_stop)
    /\ AllSegmentsPriced
    /\ quote.method = "summed"
    /\ quote.price = 20

\* C2: a quote from s_i to s_j, i < j, for which the fare row (R, s_i, s_j)
\* exists is that row's price, tagged "direct", whatever the segment fares are.
C2_DirectPrecedence ==
    (/\ QuoteBothOnList
     /\ QuoteFromPos < QuoteToPos
     /\ HasFare(quote.route, quote.from_stop, quote.to_stop))
    => /\ quote.method = "direct"
       /\ quote.price = FarePrice(quote.route, quote.from_stop, quote.to_stop)

\* a direct quote while both segments are priced and add up to another price
C2_Witness ==
    /\ QuoteBothOnList
    /\ QuoteToPos - QuoteFromPos >= 2
    /\ HasFare(quote.route, quote.from_stop, quote.to_stop)
    /\ AllSegmentsPriced
    /\ SegmentTotal(quote.route, QuotedStops, QuoteFromPos, QuoteToPos) # quote.price
    /\ quote.method = "direct"

\* C3: a quote from a stop to a stop before it on the route fails (no price)
\* with tag "wrong-order", also when a fare row for that pair exists.
C3_WrongOrder ==
    (QuoteBothOnList /\ QuoteFromPos > QuoteToPos)
    => (quote.price = NoPrice /\ quote.method = "wrong-order")

\* a wrong-order answer although the fare row of the pair exists
C3_Witness ==
    /\ QuoteBothOnList
    /\ QuoteFromPos > QuoteToPos
    /\ HasFare(quote.route, quote.from_stop, quote.to_stop)
    /\ quote.method = "wrong-order"

\* C4: a quote from a stop of the route to the same stop is price 0, tagged
\* "same-stop", whatever the fare table holds.
C4_SameStop ==
    (QuoteBothOnList /\ quote.from_stop = quote.to_stop)
    => (quote.price = 0 /\ quote.method = "same-stop")

\* a same-stop answer although a fare row (R, s, s) with another price exists
C4_Witness ==
    /\ QuoteBothOnList
    /\ quote.from_stop = quote.to_stop
    /\ HasFare(quote.route, quote.from_stop, quote.to_stop)
    /\ FarePrice(quote.route, quote.from_stop, quote.to_stop) # 0
    /\ quote.method = "same-stop"

\* C5: a quote from s_i to s_j, i < j, with no direct row and the fare row of
\* at least one consecutive pair missing fails with tag "segment-missing" and
\* no price, never a partial sum.
C5_SegmentMissing ==
    (/\ QuoteBothOnList
     /\ QuoteFromPos < QuoteToPos
     /\ ~HasFare(quote.route, quote.from_stop, quote.to_stop)
     /\ ~AllSegmentsPriced)
    => (quote.price = NoPrice /\ quote.method = "segment-missing")

\* a segment-missing answer while one of the segments is priced
C5_Witness ==
    /\ QuoteBothOnList
    /\ QuoteFromPos < QuoteToPos
    /\ ~HasFare(quote.route, quote.from_stop, quote.to_stop)
    /\ \E k \in QuoteFromPos..(QuoteToPos - 1) :
           HasFare(quote.route, QuotedStops[k], QuotedStops[k + 1])
    /\ \E k \in QuoteFromPos..(QuoteToPos - 1) :
           ~HasFare(quote.route, QuotedStops[k], QuotedStops[k + 1])
    /\ quote.price = NoPrice
    /\ quote.method = "segment-missing"

\* C6 as stated: a quote whose origin or destination is not on the stop list
\* of the quoted route fails with "missing-stops", for every route name, a
\* name that is neither built-in nor in the routes table (which has no stop
\* list of its own) included.
C6_MissingStopsEveryName ==
    (Queried /\ ~(OnList(OwnStops, quote.from_stop) /\ OnList(OwnStops, quote.to_stop)))
    => (quote.price = NoPrice /\ quote.method = "missing-stops")

\* C6, amended: a quote whose origin or destination is not on the list the
\* quote is made against fails with "missing-stops"; for a route name that is
\* neither built-in nor in the routes table that list is the built-in
\* "Denizli - Istanbul" list.
C6_MissingStops ==
    (Queried /\ ~(OnList(QuotedStops, quote.from_stop) /\ OnList(QuotedStops, quote.to_stop)))
    => (quote.price = NoPrice /\ quote.method = "missing-stops")

\* a missing-stops answer for a route name that is neither built-in nor in
\* the routes table, its origin being on the "Denizli - Istanbul" list
C6_Witness ==
    /\ Queried
    /\ quote.route \notin ROUTE_STOPS_NAMES
    /\ ~\E r \in routes : r.name = quote.route
    /\ OnList(ROUTE_STOPS["Denizli - Istanbul"], quote.from_stop)
    /\ ~OnList(ROUTE_STOPS["Denizli - Istanbul"], quote.to_stop)
    /\ quote.method = "missing-stops"

(***************************** seats and trips: claims **********************)
\* the gender a write carries, as one of "bay", "bayan" or unspecified
WrittenGender(gender_in) ==
    IF gender_in = "bay" THEN "bay"
    ELSE IF gender_in \in {"bayan", " Bayan"} THEN "bayan"
    ELSE ""

OppositeGender(g) == IF g = "bay" THEN "bayan" ELSE "bay"

\* seat s has a mapped neighbor, g is a gender, and the neighbor's row on
\* trip t holds the opposite gender, with neither exception flag set
RuleForbids(t, s, g, p) ==
    /\ g \in {"bay", "bayan"}
    /\ ~p
    /\ \E q \in NEIGHBOR_PAIRS :
          /\ s \in {q[1], q[2]}
          /\ \E r \in seats :
                /\ r.trip_id = t
                /\ r.seat_no \in {q[1], q[2]} \ {s}
                /\ r.gender = OppositeGender(g)
                /\ r.pair_ok = 0

\* C7: a single seat write on the active trip is refused by the neighbor rule
\* if and only if the seat has a mapped neighbor, the gender is "bay" or
\* "bayan", the neighbor's row on the same trip holds the opposite gender and
\* neither the write's flag nor the neighbor's stored flag is set; in every
\* other case the write goes through and stores its row.
C7_NeighborRule ==
    [][\A w \in SeatWriteInputs :
          (get_active_trip # NULL /\ api_seat_post(w[1], "", w[2], w[3]))
          => IF RuleForbids(get_active_trip, w[1], WrittenGender(w[2]), w[3])
             THEN resp'.code = 400 /\ resp'.msg = "neighbor" /\ seats' = seats
             ELSE /\ resp'.code = 200
                  /\ [trip_id |-> get_active_trip, seat_no |-> w[1], stop |-> "",
                      gender |-> WrittenGender(w[2]),
                      pair_ok |-> IF w[3] THEN 1 ELSE 0] \in seats']_vars

\* a write on seat 3 refused while seat 4 of the active trip holds "bayan"
\* without the flag
C7_Witness ==
    /\ resp.op = "api_seat"
    /\ resp.code = 400
    /\ resp.msg = "neighbor"
    /\ \E r \in seats : /\ r.trip_id = get_active_trip
                        /\ r.seat_no = 4
                        /\ r.gender = "bayan"
                        /\ r.pair_ok = 0
    /\ ~\E r \in seats : r.trip_id = get_active_trip /\ r.seat_no = 3

\* C8: after an end-trip request made while trip T is active, no seat row and
\* no walk-on row of T exists and the active-trip slot is NULL.
C8_EndTripEffect ==
    [][(end_trip /\ get_active_trip # NULL)
       => /\ \A r \in seats' : r.trip_id # get_active_trip
          /\ \A w \in walk_on_sales' : w.trip_id # get_active_trip
          /\ \A a \in app_state' : a.active_trip_id = NULL]_vars

\* an end-trip that removed a seat row and a walk-on row
C8_Witness ==
    /\ resp.op = "end_trip"
    /\ resp.rows >= 2
    /\ get_active_trip = NULL
    /\ trips # {}

C10_SingleActiveSlot ==
    /\ [](Cardinality(app_state) = 1)
    /\ [][\A r \in TripRouteInputs :
             trip_start(r)
             => /\ trips' = trips \cup {[id |-> NewRowId(trips), route |-> r]}
                /\ \A t \in trips : t.id # NewRowId(trips)
                /\ \A a \in app_state' : a.active_trip_id = NewRowId(trips)]_vars

\* trip 2 started while trip 1, whose seat row is still there, was active
C10_Witness ==
    /\ resp.op = "trip_start"
    /\ get_active_trip = 2
    /\ \E r \in seats : r.trip_id = 1
    /\ Cardinality(app_state) = 1

(***************************** consignments and photos **********************)
\* a photo file disappears from UPLOAD_DIR behind the application's back (the
\* case unlink(missing_ok=True) is written for)
file_lost(f) ==
    /\ f \in {p.file_path : p \in consignment_photos} \cap files
    /\ files' = files \ {f}
    /\ resp' = NoResp
    /\ UNCHANGED <<app_state, trips, seats, walk_on_sales, consignments,
                   consignment_photos, fareVars, auxVars>>

\* api_cons_delete whose loop stops at the first file that is missing
api_cons_delete_stops_at_missing(cid) ==
    LET tid == get_active_trip
        photos == {p \in consignment_photos : p.consignment_id = cid}
        missing == {p \in photos : p.file_path \notin files} IN
    /\ IF tid = NULL
       THEN resp' = Resp("api_cons_delete", 400, "no-active-trip", 0)
            /\ UNCHANGED <<consignments, consignment_photos, files>>
       ELSE IF missing # {}
       THEN resp' = Resp("api_cons_delete", 500, "", 0)
            /\ UNCHANGED <<consignments, consignment_photos, files>>
       ELSE /\ files' = files \ {p.file_path : p \in photos}
            /\ consignments' = {c \in consignments : ~(c.id = cid /\ c.trip_id = tid)}
            /\ consignment_photos' = consignment_photos \ photos
            /\ resp' = Resp("api_cons_delete", 200, "", Cardinality(photos))
    /\ UNCHANGED <<app_state, trips, seats, walk_on_sales, fareVars, auxVars>>

\* DELETE /api/consignments/<cid>, no other request running meanwhile: unlink
\* the files of the photo rows of cid (a missing file is passed over), delete
\* those rows, delete the consignment cid of the active trip (ON DELETE
\* CASCADE deletes the photo rows of a deleted consignment), answer ok
api_cons_delete(cid) ==
    LET tid == get_active_trip
        photos == {p \in consignment_photos : p.consignment_id = cid}
        gone == {c \in consignments : c.id = cid /\ c.trip_id = tid} IN
    /\ IF tid = NULL
       THEN resp' = Resp("api_cons_delete", 400, "no-active-trip", 0)
            /\ UNCHANGED <<consignments, consignment_photos, files>>
       ELSE /\ files' = files \ {p.file_path : p \in photos}
            /\ consignments' = consignments \ gone
            /\ consignment_photos' =
                   {p \in consignment_photos \ photos :
                       p.consignment_id \notin {c.id : c \in gone}}
            /\ resp' = Resp("api_cons_delete", 200,
                            IF \E p \in photos : p.file_path \notin files
                            THEN "file-missing" ELSE "",
                            Cardinality(photos))
    /\ UNCHANGED <<app_state, trips, seats, walk_on_sales, fareVars, auxVars>>

\* a request between its read and its write: what it read and what it will write
Upload(tid, cid, fname) ==
    [op |-> "api_cons_photos", tid |-> tid, cid |-> cid, file_path |-> fname,
     photos |-> {}]
Deletion(tid, cid, paths) ==
    [op |-> "api_cons_delete", tid |-> tid, cid |-> cid, file_path |-> 0,
     photos |-> paths]

\* POST /api/consignments/<cid>/photos up to its SELECT: the file is saved,
\* then the consignment is looked up among those of the active trip
api_cons_photos_select(cid) ==
    LET tid == get_active_trip
        fname == NewFileName
        row == {c \in consignments : c.id = cid /\ c.trip_id = tid} IN
    /\ IF tid = NULL
       THEN resp' = Resp("api_cons_photos", 400, "no-active-trip", 0)
            /\ UNCHANGED <<files, inflight>>
       ELSE IF row = {}
       THEN /\ files' = (files \cup {fname}) \ {fname}
            /\ resp' = Resp("api_cons_photos", 404, "not-found", 0)
            /\ UNCHANGED inflight
       ELSE /\ Cardinality(inflight) < MaxInflight
            /\ fname <= MaxFiles
            /\ Cardinality(consignment_photos)
                 + Cardinality({q \in inflight : q.op = "api_cons_photos"}) < MaxPhotos
            /\ files' = files \cup {fname}
            /\ inflight' = inflight \cup {Upload(tid, cid, fname)}
            /\ resp' = NoResp
    /\ UNCHANGED <<app_state, trips, seats, walk_on_sales, consignments,
                   consignment_photos, fareVars, notRaceVars>>

\* the INSERT of an upload on a connection that does not enforce foreign keys
api_cons_photos_insert_unchecked(q) ==
    /\ q \in inflight /\ q.op = "api_cons_photos"
    /\ inflight' = inflight \ {q}
    /\ consignment_photos' = consignment_photos \cup
           {[id |-> NewRowId(consignment_photos), consignment_id |-> q.cid,
             file_path |-> q.file_path]}
    /\ resp' = Resp("api_cons_photos", 200, "", 1)
    /\ UNCHANGED <<app_state, trips, seats, walk_on_sales, consignments, files, fareVars, notRaceVars>>

\* the rest of the upload: the INSERT and the commit.  The connection enforces
\* foreign keys (get_db), so the INSERT of a row whose consignment is gone
\* raises and the request ends with 500, its file left on disk
api_cons_photos_insert(q) ==
    /\ q \in inflight /\ q.op = "api_cons_photos"
    /\ inflight' = inflight \ {q}
    /\ IF q.cid \notin {c.id : c \in consignments}
       THEN resp' = Resp("api_cons_photos", 500, "foreign-key", 0)
            /\ UNCHANGED consignment_photos
       ELSE /\ consignment_photos' = consignment_photos \cup
                   {[id |-> NewRowId(consignment_photos), consignment_id |-> q.cid,
                     file_path |-> q.file_path]}
            /\ resp' = Resp("api_cons_photos", 200, "", 1)
    /\ UNCHANGED <<app_state, trips, seats, walk_on_sales, consignments, files, fareVars, notRaceVars>>

\* DELETE /api/consignments/<cid> up to its SELECT of the photo rows
api_cons_delete_select(cid) ==
    LET tid == get_active_trip
        photos == {p \in consignment_photos : p.consignment_id = cid} IN
    /\ IF tid = NULL
       THEN resp' = Resp("api_cons_delete", 400, "no-active-trip", 0)
            /\ UNCHANGED inflight
       ELSE /\ Cardinality(inflight) < MaxInflight
            /\ inflight' = inflight \cup
                   {Deletion(tid, cid, {p.file_path : p \in photos})}
            /\ resp' = NoResp
    /\ UNCHANGED <<app_state, trips, seats, walk_on_sales, consignments,
                   consignment_photos, files, fareVars, notRaceVars>>

\* the rest of the delete: the files read are unlinked, then the two DELETEs
\* and the commit
api_cons_delete_commit(q) ==
    LET photos == {p \in consignment_photos : p.consignment_id = q.cid}
        gone == {c \in consignments : c.id = q.cid /\ c.trip_id = q.tid} IN
    /\ q \in inflight /\ q.op = "api_cons_delete"
    /\ inflight' = inflight \ {q}
    /\ files' = files \ q.photos
    /\ consignments' = consignments \ gone
    /\ consignment_photos' =
           {p \in consignment_photos \ photos :
               p.consignment_id \notin {c.id : c \in gone}}
    /\ resp' = Resp("api_cons_delete", 200, "", Cardinality(photos))
    /\ UNCHANGED <<app_state, trips, seats, walk_on_sales, fareVars, notRaceVars>>

(***************************** the consignment specifications ***************)
\* requests served one after another, and files that disappear
InitCons == InitTables

NextCons ==
    \/ \E r \in TripRouteInputs : trip_start(r)
    \/ end_trip
    \/ api_consignments_post("", "Saraykoy")
    \/ \E cid \in 1..MaxConsignments : api_cons_photos_post(cid)
    \/ \E cid \in 1..MaxConsignments : api_cons_delete(cid)
    \/ \E f \in files : file_lost(f)

SpecCons == InitCons /\ [][NextCons]_vars

\* uploads and deletes served by concurrent workers: each is a read step and
\* a write step, with other requests' steps in between
\* the consignment id the racing requests are addressed to
RaceCidInputs == {1}

InitConsRace == InitTables

NextConsRace ==
    \/ \E r \in TripRouteInputs : trip_start(r)
    \/ api_consignments_post("", "Saraykoy")
    \/ \E cid \in RaceCidInputs : api_cons_photos_select(cid)
    \/ \E q \in inflight : api_cons_photos_insert(q)
    \/ \E cid \in RaceCidInputs : api_cons_delete_select(cid)
    \/ \E q \in inflight : api_cons_delete_commit(q)

SpecConsRace == InitConsRace /\ [][NextConsRace]_vars

(***************************** consignments: claims *************************)
\* the photo rows of consignment cid
PhotosOf(cid) == {p \in consignment_photos : p.consignment_id = cid}

\* C11: a delete of a consignment of the active trip that has photo rows
\* removes every photo row of the consignment, leaves none of their files on
\* disk, removes the consignment row and answers ok, whether or not some of
\* the files were already missing.
C11_DeleteCascade ==
    [][\A cid \in 1..MaxConsignments :
         (/\ get_active_trip # NULL
          /\ \E c \in consignments : c.id = cid /\ c.trip_id = get_active_trip
          /\ PhotosOf(cid) # {}
          /\ api_cons_delete(cid))
         => /\ resp'.code = 200
            /\ \A p \in consignment_photos' : p.consignment_id # cid
            /\ \A p \in PhotosOf(cid) : p.file_path \notin files'
            /\ \A c \in consignments' : c.id # cid
            /\ files \ files' \subseteq {p.file_path : p \in PhotosOf(cid)}]_vars

\* a delete has removed two photo rows, one of whose files was already missing
C11_Witness ==
    /\ resp.op = "api_cons_delete" /\ resp.code = 200
    /\ resp.rows = 2 /\ resp.msg = "file-missing"
    /\ consignment_photos = {}

\* C12: under every interleaving of consignment create, photo upload and
\* consignment delete requests, every photo row references a consignment
\* row that exists.
C12_PhotoIntegrity ==
    \A p \in consignment_photos : \E c \in consignments : c.id = p.consignment_id

\* an upload found its consignment, a delete removed it before the upload's
\* INSERT, and the INSERT was refused
C12_Witness ==
    /\ resp.op = "api_cons_photos" /\ resp.msg = "foreign-key"
    /\ consignments = {}

(***************************** the speed-limit lookup (speedlimit.py) *******)
CACHE_TTL_S == 600
\* the endpoints of OVERPASS_URLS, by position
OVERPASS_URLS == <<1, 2, 3>>
\* parse_maxspeed returning None
NoLimit == -1

\* what one endpoint answers to one request: 429, any other failure (a
\* timeout, an HTTP error, a body that is not JSON), or the tags of the
\* nearest way ("" for a tag that is absent; no way at all is no tags)
Failed(kind) == [status |-> kind, highway |-> "", maxspeed |-> ""]
Tags(highway, maxspeed) == [status |-> "ok", highway |-> highway, maxspeed |-> maxspeed]
NoTags == Tags("", "")
\* what the three endpoints answer, should they be asked
UpstreamInputs ==
    { <<Failed("429"), Failed("error"), Failed("429")>>,
      <<Failed("error"), Failed("429"), Tags("Motorway", "")>>,
      <<Failed("429"), Tags("residential", "50 km/h"), Tags("primary", "signals")>>,
      <<NoTags, Tags("residential", "50 km/h"), Failed("error")>>,
      <<Tags("primary", "signals"), Failed("error"), Failed("error")>>,
      <<Tags("residential", "50 km/h"), Failed("429"), Failed("429")>> }

\* str.lower() on the highway values of the model
Lower(hw) == IF hw = "Motorway" THEN "motorway" ELSE hw

fallback_limit_by_highway(hw) ==
    LET h == Lower(hw) IN
    IF h \in {"motorway", "trunk"} THEN 120
    ELSE IF h \in {"primary", "secondary", "tertiary"} THEN 90
    ELSE IF h \in {"residential", "living_street", "service"} THEN 50
    ELSE 90

\* parse_maxspeed on the maxspeed values of the model
parse_maxspeed(val) ==
    IF val = "" THEN NoLimit
    ELSE IF val = "50 km/h" THEN 50
    ELSE IF val = "0" THEN 0
    ELSE NoLimit

\* the loop of overpass_query from endpoint k on: [raised, tags, requests]
RECURSIVE overpass_loop(_, _)
overpass_loop(upstream, k) ==
    IF k > Len(OVERPASS_URLS)
    THEN [raised |-> TRUE, tags |-> NoTags, requests |-> Len(OVERPASS_URLS)]
    ELSE IF upstream[k].status # "ok" THEN overpass_loop(upstream, k + 1)
    ELSE [raised |-> FALSE, tags |-> upstream[k], requests |-> k]

\* overpass_query that gives up after the first endpoint
overpass_query_first_only(upstream) ==
    IF upstream[1].status # "ok"
    THEN [raised |-> TRUE, tags |-> NoTags, requests |-> 1]
    ELSE [raised |-> FALSE, tags |-> upstream[1], requests |-> 1]

overpass_query(upstream) == overpass_loop(upstream, 1)

get_bucket(b) == b

\* the test of api_speedlimit on the cached entry that is one second generous
cache_fresh_inclusive(c, now) == c # NoEntry /\ now - c.ts <= CACHE_TTL_S

\* the test of api_speedlimit on the cached entry: c and now - c["ts"] < TTL
cache_fresh(c, now) == c # NoEntry /\ now - c.ts < CACHE_TTL_S

notSpeedVars == <<fareVars, tripVars, raceVars, authVars, logVars, bagVars>>

\* time passes
tick ==
    /\ clock + TickS <= MaxTicks * TickS
    /\ clock' = clock + TickS
    /\ UNCHANGED <<CACHE, speed, notSpeedVars>>

\* GET /api/speedlimit with lat and lng that parse, falling into `bucket`,
\* the endpoints answering as `upstream` says should they be asked
api_speedlimit(bucket, upstream) ==
    LET now == clock
        c == CACHE[get_bucket(bucket)]
        q == overpass_query(upstream)
        tags == IF q.raised THEN NoTags ELSE q.tags
        highway == Lower(tags.highway)
        parsed == parse_maxspeed(tags.maxspeed)
        limit == IF parsed \in {NoLimit, 0} THEN fallback_limit_by_highway(highway) ELSE parsed
        source == IF parsed \in {NoLimit, 0} THEN "fallback" ELSE "osm:maxspeed" IN
    /\ IF cache_fresh(c, now)
       THEN /\ speed' = [bucket |-> bucket, limit |-> c.limit, highway |-> c.highway,
                         source |-> c.source, from_cache |-> TRUE, requests |-> 0,
                         code |-> 200]
            /\ UNCHANGED CACHE
       ELSE /\ CACHE' = [CACHE EXCEPT ![get_bucket(bucket)] =
                            [ts |-> now, limit |-> limit, highway |-> highway,
                             source |-> source]]
            /\ speed' = [bucket |-> bucket, limit |-> limit, highway |-> highway,
                         source |-> source, from_cache |-> FALSE,
                         requests |-> q.requests, code |-> 200]
    /\ UNCHANGED <<clock, notSpeedVars>>

InitSpeed == InitTables

NextSpeed ==
    \/ tick
    \/ \E b \in Buckets, u \in UpstreamInputs : api_speedlimit(b, u)

SpecSpeed == InitSpeed /\ [][NextSpeed]_vars

(***************************** the speed-limit lookup: claims ***************)
\* the entry a lookup of bucket b finds, and its age
Entry(b) == CACHE[b]
Age(b) == clock - CACHE[b].ts

\* C13: a lookup of a bucket whose entry was stored less than CACHE_TTL_S
\* seconds ago makes no upstream request and answers the stored limit,
\* highway and source with from_cache true, the entry kept as it is; a lookup
\* of a bucket whose entry is CACHE_TTL_S seconds old or older is made again
\* upstream, answers from_cache false and stores a fresh entry.
C13_CacheHit ==
    [][\A b \in Buckets, u \in UpstreamInputs :
         (Entry(b) # NoEntry /\ api_speedlimit(b, u))
         => IF Age(b) < CACHE_TTL_S
            THEN /\ speed'.requests = 0 /\ speed'.from_cache
                 /\ speed'.limit = Entry(b).limit
                 /\ speed'.highway = Entry(b).highway
                 /\ speed'.source = Entry(b).source
                 /\ CACHE' = CACHE
            ELSE /\ speed'.requests >= 1 /\ ~speed'.from_cache
                 /\ CACHE'[b].ts = clock]_vars

\* a second lookup served from an entry stored 300 s earlier
C13_Witness ==
    /\ speed.from_cache /\ speed.requests = 0
    /\ clock - CACHE[speed.bucket].ts = TickS

\* the outcome of the first endpoint that does not fail, if there is one
AllFail(u) == \A k \in 1..Len(OVERPASS_URLS) : u[k].status # "ok"
FirstOk(u) ==
    CHOOSE k \in 1..Len(OVERPASS_URLS) :
        u[k].status = "ok" /\ \A i \in 1..(k - 1) : u[i].status # "ok"
Unusable(ms) == ms \in {"", "signals"}

\* C14: a lookup that is not served from the cache asks the endpoints in
\* list order up to the first that does not fail and uses that answer; when
\* every endpoint fails, or the answer has no way or no usable maxspeed, the
\* lookup still answers 200 with the default limit of the highway class and
\* source "fallback".
C14_Fallback ==
    [][\A b \in Buckets, u \in UpstreamInputs :
         (~(Entry(b) # NoEntry /\ Age(b) < CACHE_TTL_S) /\ api_speedlimit(b, u))
         => /\ speed'.code = 200
            /\ IF AllFail(u)
               THEN /\ speed'.requests = Len(OVERPASS_URLS)
                    /\ speed'.source = "fallback" /\ speed'.limit = 90
               ELSE /\ speed'.requests = FirstOk(u)
                    /\ speed'.highway = Lower(u[FirstOk(u)].highway)
                    /\ Unusable(u[FirstOk(u)].maxspeed)
                       => /\ speed'.source = "fallback"
                          /\ speed'.limit =
                               fallback_limit_by_highway(u[FirstOk(u)].highway)]_vars

\* the first two endpoints failed and the third answered a motorway without
\* a maxspeed tag
C14_Witness ==
    /\ speed.code = 200 /\ speed.requests = 3 /\ ~speed.from_cache
    /\ speed.source = "fallback" /\ speed.highway = "motorway" /\ speed.limit = 120

(***************************** authentication and CSRF **********************)
\* a path is the tuple of its segments: /api/seat is <<"api", "seat">>
EXCLUDE_PREFIXES == { <<"login">>, <<"logout">>, <<"health">>, <<"api", "speedlimit">> }
\* ADMIN_PASSWORD and a wrong password
ADMIN_PASSWORD == "volkan"
PasswordInputs == {ADMIN_PASSWORD, "x"}
\* the tokens a request may carry in its form field, its X-CSRF-Token header
\* and its JSON body: 0 is none, 1..issued are the tokens issued so far
TokenInputs ==
    { <<0, 0, 0>> }
    \cup { <<t, 0, 0>> : t \in 1..issued } \cup { <<0, t, 0>> : t \in 1..issued }
    \cup { <<0, 0, t>> : t \in 1..issued }
    \cup { <<t, issued, 0>> : t \in 1..(issued - 1) }

\* p == x or p.startswith(x + "/")
is_excluded_path(p) ==
    \E x \in EXCLUDE_PREFIXES :
        Len(p) >= Len(x) /\ \A i \in 1..Len(x) : p[i] = x[i]

\* issue_csrf: a token never issued before
issue_csrf == [session EXCEPT !.csrf_token = issued + 1]

\* get_csrf: the session's token, issued now if the session has none
get_csrf_issues == session.csrf_token = 0

\* check_csrf that accepts any token ever issued
check_csrf_any_issued(toks) ==
    LET supplied == IF toks[1] # 0 THEN toks[1]
                    ELSE IF toks[2] # 0 THEN toks[2] ELSE toks[3] IN
    IF supplied = 0 THEN "csrf-absent"
    ELSE IF supplied > issued THEN "csrf-mismatch"
    ELSE "pass"

\* check_csrf: form_tok or header_tok or json_tok against the session's token
check_csrf(toks) ==
    LET supplied == IF toks[1] # 0 THEN toks[1]
                    ELSE IF toks[2] # 0 THEN toks[2] ELSE toks[3] IN
    IF supplied = 0 THEN "csrf-absent"
    ELSE IF supplied # session.csrf_token THEN "csrf-mismatch"
    ELSE "pass"

\* bootstrap_and_guard that asks for no login
bootstrap_and_guard_open(p, method, toks) ==
    IF ~is_excluded_path(p) /\ method \in {"POST", "PUT", "PATCH", "DELETE"}
    THEN check_csrf(toks)
    ELSE "pass"

\* bootstrap_and_guard: "pass" when the request goes on to its handler,
\* "login" for the redirect to /login, else the reason of the 403
bootstrap_and_guard(p, method, toks) ==
    IF is_excluded_path(p) THEN "pass"
    ELSE IF ~session.auth_ok THEN "login"
    ELSE IF method \in {"POST", "PUT", "PATCH", "DELETE"} THEN check_csrf(toks)
    ELSE "pass"

\* the tables and the uploaded files
storedVars == <<routes, fares, app_state, trips, seats, walk_on_sales, consignments,
                consignment_photos, files, stop_logs, route_stop_coords, bag_files>>

\* the answer of the guard when the request does not go on
refused(v) ==
    /\ resp' = Resp("bootstrap_and_guard", IF v = "login" THEN 302 ELSE 403, v, 0)
    /\ UNCHANGED <<storedVars, quote, raceVars, speedVars, authVars>>

\* GET /login: the login page, rendered with get_csrf()
login_get ==
    /\ IF get_csrf_issues
       THEN issued < MaxTokens /\ session' = issue_csrf /\ issued' = issued + 1
       ELSE UNCHANGED <<session, issued>>
    /\ resp' = Resp("login", 200, "", 0)
    /\ UNCHANGED <<storedVars, quote, raceVars, speedVars>>

\* POST /login
login(pwd) ==
    /\ IF pwd = ADMIN_PASSWORD
       THEN /\ issued < MaxTokens
            /\ session' = [issue_csrf EXCEPT !.auth_ok = TRUE]
            /\ issued' = issued + 1
            /\ resp' = Resp("login", 302, "index", 0)
       ELSE /\ IF get_csrf_issues
               THEN issued < MaxTokens /\ session' = issue_csrf /\ issued' = issued + 1
               ELSE UNCHANGED <<session, issued>>
            /\ resp' = Resp("login", 200, "bad-password", 0)
    /\ UNCHANGED <<storedVars, quote, raceVars, speedVars>>

\* POST /logout: session.clear()
logout ==
    /\ session' = NoSession
    /\ resp' = Resp("logout", 302, "login", 0)
    /\ UNCHANGED <<storedVars, quote, raceVars, speedVars, issued>>

\* GET /api/seats/list
api_seats_list ==
    LET tid == get_active_trip IN
    /\ resp' = IF tid = NULL THEN Resp("api_seats_list", 400, "no-active-trip", 0)
               ELSE Resp("api_seats_list", 200, "",
                         Cardinality({r \in seats : r.trip_id = tid}))
    /\ UNCHANGED <<storedVars, quote, auxVars>>

\* a request on its way through before_request to its handler
request_trip_start(toks, route) ==
    LET v == bootstrap_and_guard(<<"sefer-baslat">>, "POST", toks) IN
    IF v = "pass" THEN trip_start(route) ELSE refused(v)

request_end_trip(toks) ==
    LET v == bootstrap_and_guard(<<"end-trip">>, "POST", toks) IN
    IF v = "pass" THEN end_trip ELSE refused(v)

request_api_seat_post(toks, seat_no, gender) ==
    LET v == bootstrap_and_guard(<<"api", "seat">>, "POST", toks) IN
    IF v = "pass" THEN api_seat_post(seat_no, "", gender, FALSE) ELSE refused(v)

request_api_seat_delete(toks, seat_no) ==
    LET v == bootstrap_and_guard(<<"api", "seat">>, "DELETE", toks) IN
    IF v = "pass" THEN api_seat_delete(seat_no) ELSE refused(v)

request_api_seats_list(toks) ==
    LET v == bootstrap_and_guard(<<"api", "seats", "list">>, "GET", toks) IN
    IF v = "pass" THEN api_seats_list ELSE refused(v)

\* a request to a path without a route: 404 once past the guard
request_no_route(p, method, toks) ==
    LET v == bootstrap_and_guard(p, method, toks) IN
    IF v = "pass"
    THEN /\ resp' = Resp("not_found", 404, "", 0)
         /\ UNCHANGED <<storedVars, quote, auxVars>>
    ELSE refused(v)

(***************************** the authentication specification *************)
InitAuth == InitTables

\* the protected requests: those that go through the login and CSRF checks
ProtectedRequest(toks) ==
    \/ \E r \in TripRouteInputs : request_trip_start(toks, r)
    \/ request_end_trip(toks)
    \/ request_api_seat_post(toks, 3, "bay")
    \/ request_api_seat_delete(toks, 3)
    \/ request_api_seats_list(toks)
    \/ \E m \in {"GET", "POST"} : request_no_route(<<"loginx">>, m, toks)

NextAuth ==
    \/ login_get
    \/ \E pwd \in PasswordInputs : login(pwd)
    \/ logout
    \/ \E toks \in TokenInputs : ProtectedRequest(toks)
    \/ \E toks \in TokenInputs : request_no_route(<<"health", "x">>, "POST", toks)

SpecAuth == InitAuth /\ [][NextAuth]_vars

(***************************** authentication and CSRF: claims **************)
\* C15: while the session is not authenticated, a request to a path that is
\* not excluded is answered by the redirect to /login and no step changes
\* the tables or the files; the session becomes authenticated only by a
\* login with the right password and stops being so at the next logout.
C15_AuthGate ==
    [][/\ (~session.auth_ok /\ \E toks \in TokenInputs : ProtectedRequest(toks))
              => resp' = Resp("bootstrap_and_guard", 302, "login", 0)
       /\ ~session.auth_ok => UNCHANGED storedVars
       /\ (~session.auth_ok /\ session'.auth_ok) => login(ADMIN_PASSWORD)
       /\ logout => ~session'.auth_ok
       /\ (session.auth_ok /\ ~session'.auth_ok) => logout]_vars

\* a session that logged in, started a trip and logged out is sent to /login
C15_Witness ==
    /\ ~session.auth_ok /\ trips # {}
    /\ resp = Resp("bootstrap_and_guard", 302, "login", 0)

\* none of the tokens the request carries is the session's token
NoneCurrent(toks) == \A i \in 1..3 : toks[i] # session.csrf_token

\* the protected requests made with POST or DELETE
UnsafeRequest(toks) ==
    \/ \E r \in TripRouteInputs : request_trip_start(toks, r)
    \/ request_end_trip(toks)
    \/ request_api_seat_post(toks, 3, "bay")
    \/ request_api_seat_delete(toks, 3)
    \/ request_no_route(<<"loginx">>, "POST", toks)

\* C16: a POST or DELETE request of an authenticated session to a path that
\* is not excluded, carrying no token or only tokens other than the
\* session's, is answered 403 and changes no table and no file; the token
\* of an authenticated session is the latest one issued, so that a token
\* issued before the latest login is one of those refused.
C16_CsrfGate ==
    /\ [](session.auth_ok => session.csrf_token = issued /\ issued >= 1)
    /\ [][\A toks \in TokenInputs :
            (session.auth_ok /\ NoneCurrent(toks) /\ UnsafeRequest(toks))
            => /\ resp'.op = "bootstrap_and_guard" /\ resp'.code = 403
               /\ UNCHANGED storedVars]_vars

\* a request of a session that logged in twice, made with a token of the
\* first login, is refused
C16_Witness ==
    /\ session.auth_ok /\ issued >= 2
    /\ resp = Resp("bootstrap_and_guard", 403, "csrf-mismatch", 0)

(***************************** the other trip APIs **************************)
\* what a handler that only reads leaves alone
readOnly == UNCHANGED <<storedVars, quote, auxVars>>

\* an item of the seats list of a bulk write
SeatItem(seat_no, gender, pair_ok, stop) ==
    [seat_no |-> seat_no, gender |-> gender, pair_ok |-> pair_ok, stop |-> stop]

\* the seats lists bulk writes are made with: none, both seats of a pair
\* with opposite genders, a good item followed by one with a stop off the
\* route, one seat twice
BulkInputs ==
    { <<>>,
      <<SeatItem(3, "bay", FALSE, ""), SeatItem(4, "bayan", FALSE, "")>>,
      <<SeatItem(1, "bay", FALSE, ""), SeatItem(5, "", FALSE, "Alasehir")>>,
      <<SeatItem(4, "bayan", FALSE, "Saraykoy"), SeatItem(4, "", TRUE, "")>> }
\* the seat numbers bulk deletes and offloads are made with
SeatListInputs == { <<>>, <<3, 4>> }

\* the loop of api_seats_bulk over the items from the k-th on: the reason of
\* the first refusal, "" when every item passes
\* a seat_no that int() refuses (absent, or not a number)
BadSeatNo == -1

RECURSIVE bulk_check(_, _, _, _)
bulk_check(tid, items, stop, k) ==
    IF k > Len(items) THEN ""
    ELSE LET item == items[k]
             stp == IF item.stop # "" THEN item.stop ELSE stop
             gen == norm_gender(item.gender) IN
         IF item.seat_no = BadSeatNo THEN "seats-invalid"
         ELSE IF stp # "" /\ ~validate_stop_for_active_trip(stp) THEN "stop-not-on-route"
         ELSE IF gen # "" /\ ~neighbor_rule_ok(tid, item.seat_no, gen, item.pair_ok)
         THEN "neighbor"
         ELSE bulk_check(tid, items, stop, k + 1)

\* the row of an item
bulk_row(tid, item, stop) ==
    [trip_id |-> tid, seat_no |-> item.seat_no,
     stop |-> IF item.stop # "" THEN item.stop ELSE stop,
     gender |-> norm_gender(item.gender), pair_ok |-> IF item.pair_ok THEN 1 ELSE 0]

\* INSERT ... ON CONFLICT(trip_id, seat_no) DO UPDATE of one row
seat_upsert(table, row) ==
    {r \in table : ~(r.trip_id = row.trip_id /\ r.seat_no = row.seat_no)} \cup {row}

\* executemany of the upsert over the rows from the k-th on
RECURSIVE bulk_upsert(_, _, _, _, _)
bulk_upsert(table, tid, items, stop, k) ==
    IF k > Len(items) THEN table
    ELSE bulk_upsert(seat_upsert(table, bulk_row(tid, items[k], stop)),
                     tid, items, stop, k + 1)

\* the bulk write that stores each item as soon as it has passed
api_seats_bulk_post_row_by_row(items, stop) ==
    LET tid == get_active_trip
        why == bulk_check(tid, items, stop, 1) IN
    /\ IF tid = NULL
       THEN resp' = Resp("api_seats_bulk", 400, "no-active-trip", 0) /\ UNCHANGED seats
       ELSE IF Len(items) = 0
       THEN resp' = Resp("api_seats_bulk", 400, "seats-required", 0) /\ UNCHANGED seats
       ELSE IF stop # "" /\ ~validate_stop_for_active_trip(stop)
       THEN resp' = Resp("api_seats_bulk", 400, "stop-not-on-route", 0) /\ UNCHANGED seats
       ELSE IF why # ""
       THEN /\ resp' = Resp("api_seats_bulk", 400, why, 0)
            /\ seats' = IF bulk_check(tid, SubSeq(items, 1, 1), stop, 1) = ""
                        THEN seat_upsert(seats, bulk_row(tid, items[1], stop))
                        ELSE seats
       ELSE /\ seats' = bulk_upsert(seats, tid, items, stop, 1)
            /\ resp' = Resp("api_seats_bulk", 200, "", Len(items))
    /\ UNCHANGED <<app_state, trips, walk_on_sales, consignments, consignment_photos,
                   files, fareVars, auxVars>>

\* POST /api/seats/bulk
api_seats_bulk_post(items, stop) ==
    LET tid == get_active_trip
        why == bulk_check(tid, items, stop, 1) IN
    /\ IF tid = NULL
       THEN resp' = Resp("api_seats_bulk", 400, "no-active-trip", 0) /\ UNCHANGED seats
       ELSE IF Len(items) = 0
       THEN resp' = Resp("api_seats_bulk", 400, "seats-required", 0) /\ UNCHANGED seats
       ELSE IF stop # "" /\ ~validate_stop_for_active_trip(stop)
       THEN resp' = Resp("api_seats_bulk", 400, "stop-not-on-route", 0) /\ UNCHANGED seats
       ELSE IF why # ""
       THEN resp' = Resp("api_seats_bulk", 400, why, 0) /\ UNCHANGED seats
       ELSE /\ seats' = bulk_upsert(seats, tid, items, stop, 1)
            /\ resp' = Resp("api_seats_bulk", 200, "", Len(items))
    /\ UNCHANGED <<app_state, trips, walk_on_sales, consignments, consignment_photos,
                   files, fareVars, auxVars>>

\* the rows of the active trip on the seats of a list
seats_of_list(tid, seat_list) ==
    {r \in seats : r.trip_id = tid /\ \E i \in 1..Len(seat_list) : seat_list[i] = r.seat_no}

\* DELETE /api/seats/bulk?seats=...
api_seats_bulk_delete(seat_list) ==
    LET tid == get_active_trip IN
    /\ IF tid = NULL
       THEN resp' = Resp("api_seats_bulk_delete", 400, "no-active-trip", 0)
            /\ UNCHANGED seats
       ELSE IF Len(seat_list) = 0
       THEN resp' = Resp("api_seats_bulk_delete", 400, "seats-required", 0)
            /\ UNCHANGED seats
       ELSE /\ seats' = seats \ seats_of_list(tid, seat_list)
            /\ resp' = Resp("api_seats_bulk_delete", 200, "",
                            Cardinality(seats_of_list(tid, seat_list)))
    /\ UNCHANGED <<app_state, trips, walk_on_sales, consignments, consignment_photos,
                   files, fareVars, auxVars>>

\* the offload without the test of the active trip
api_seats_offload_unchecked(seat_list) ==
    LET tid == get_active_trip IN
    /\ IF Len(seat_list) = 0
       THEN resp' = Resp("api_seats_offload", 400, "seats-required", 0)
            /\ UNCHANGED seats
       ELSE /\ seats' = seats \ seats_of_list(tid, seat_list)
            /\ resp' = Resp("api_seats_offload", 200, "",
                            Cardinality(seats_of_list(tid, seat_list)))
    /\ UNCHANGED <<app_state, trips, walk_on_sales, consignments, consignment_photos,
                   files, fareVars, auxVars>>

\* POST /api/seats/offload
api_seats_offload_alias(seat_list) ==
    LET tid == get_active_trip IN
    /\ IF tid = NULL
       THEN resp' = Resp("api_seats_offload", 400, "no-active-trip", 0)
            /\ UNCHANGED seats
       ELSE IF Len(seat_list) = 0
       THEN resp' = Resp("api_seats_offload", 400, "seats-required", 0)
            /\ UNCHANGED seats
       ELSE /\ seats' = seats \ seats_of_list(tid, seat_list)
            /\ resp' = Resp("api_seats_offload", 200, "",
                            Cardinality(seats_of_list(tid, seat_list)))
    /\ UNCHANGED <<app_state, trips, walk_on_sales, consignments, consignment_photos,
                   files, fareVars, auxVars>>

\* SQL lower() on the stop names of the model
lower(stop) ==
    IF stop = "Denizli otogar" THEN "denizli otogar"
    ELSE IF stop = "Saraykoy" THEN "saraykoy"
    ELSE IF stop = "Buldan" THEN "buldan"
    ELSE IF stop = "Alasehir" THEN "alasehir"
    ELSE stop

\* the walk-on rows of the trip sold to a stop
walkons_to(tid, to_param) ==
    {w \in walk_on_sales : w.trip_id = tid /\ lower(w.to_stop) = lower(to_param)}

\* GET /api/walkon and GET /api/standing
walkon_get(op) ==
    LET tid == get_active_trip IN
    /\ resp' = IF tid = NULL THEN Resp(op, 400, "no-active-trip", 0)
               ELSE Resp(op, 200, "", Cardinality({w \in walk_on_sales : w.trip_id = tid}))
    /\ readOnly
api_walkon_get == walkon_get("api_walkon_get")
api_standing_get == walkon_get("api_standing_get")

\* DELETE /api/walkon?to=... and DELETE /api/standing?to=...
walkon_delete(op, to_param) ==
    LET tid == get_active_trip IN
    /\ IF tid = NULL
       THEN resp' = Resp(op, 400, "no-active-trip", 0) /\ UNCHANGED walk_on_sales
       ELSE IF to_param = ""
       THEN resp' = Resp(op, 400, "to-required", 0) /\ UNCHANGED walk_on_sales
       ELSE IF ~validate_stop_for_active_trip(to_param)
       THEN resp' = Resp(op, 400, "stop-not-on-route", 0) /\ UNCHANGED walk_on_sales
       ELSE /\ walk_on_sales' = walk_on_sales \ walkons_to(tid, to_param)
            /\ resp' = Resp(op, 200, "", Cardinality(walkons_to(tid, to_param)))
    /\ UNCHANGED <<app_state, trips, seats, consignments, consignment_photos,
                   files, fareVars, auxVars>>
api_walkon_delete(to_param) == walkon_delete("api_walkon_delete", to_param)
api_standing_delete(to_param) == walkon_delete("api_standing_delete", to_param)

\* POST /api/standing
api_standing_post(from_stop, to_stop) ==
    LET tid == get_active_trip IN
    /\ IF tid = NULL
       THEN resp' = Resp("api_standing", 400, "no-active-trip", 0)
            /\ UNCHANGED walk_on_sales
       ELSE IF from_stop = "" \/ to_stop = ""
       THEN resp' = Resp("api_standing", 400, "from-to-required", 0)
            /\ UNCHANGED walk_on_sales
       ELSE IF ~validate_stop_for_active_trip(from_stop)
               \/ ~validate_stop_for_active_trip(to_stop)
       THEN resp' = Resp("api_standing", 400, "stop-not-on-route", 0)
            /\ UNCHANGED walk_on_sales
       ELSE /\ Cardinality(walk_on_sales) < MaxWalkons
            /\ walk_on_sales' = walk_on_sales \cup
                   {[id |-> NewRowId(walk_on_sales), trip_id |-> tid,
                     from_stop |-> from_stop, to_stop |-> to_stop]}
            /\ resp' = Resp("api_standing", 200, "", 1)
    /\ UNCHANGED <<app_state, trips, seats, consignments, consignment_photos,
                   files, fareVars, auxVars>>

\* the route of the active trip, "" when the trip row is missing
active_route ==
    LET rows == {t \in trips : t.id = get_active_trip} IN
    IF rows = {} THEN "" ELSE (CHOOSE t \in rows : TRUE).route

\* GET /api/coords
api_coords_get ==
    LET tid == get_active_trip IN
    /\ resp' = IF tid = NULL THEN Resp("api_coords_get", 400, "no-active-trip", 0)
               ELSE Resp("api_coords_get", 200, "",
                         Cardinality({c \in route_stop_coords : c.route = active_route}))
    /\ readOnly

\* POST /api/coords with lat and lng that parse
api_coords_post(stop, lat, lng) ==
    LET tid == get_active_trip
        row == [route |-> active_route, stop |-> stop, lat |-> lat, lng |-> lng] IN
    /\ IF tid = NULL
       THEN resp' = Resp("api_coords", 400, "no-active-trip", 0)
            /\ UNCHANGED route_stop_coords
       ELSE IF stop = ""
       THEN resp' = Resp("api_coords", 400, "stop-required", 0)
            /\ UNCHANGED route_stop_coords
       ELSE IF ~validate_stop_for_active_trip(stop)
       THEN resp' = Resp("api_coords", 400, "stop-not-on-route", 0)
            /\ UNCHANGED route_stop_coords
       ELSE /\ route_stop_coords' =
                   {c \in route_stop_coords : ~(c.route = row.route /\ c.stop = stop)}
                   \cup {row}
            /\ resp' = Resp("api_coords", 200, "", 1)
    /\ UNCHANGED <<fareVars, app_state, trips, seats, walk_on_sales, consignments,
                   consignment_photos, files, raceVars, speedVars, authVars,
                   stop_logs, bag_files>>

\* DELETE /api/coords?stop=...
api_coords_delete(stop) ==
    LET tid == get_active_trip
        gone == {c \in route_stop_coords : c.route = active_route /\ c.stop = stop} IN
    /\ IF tid = NULL
       THEN resp' = Resp("api_coords_delete", 400, "no-active-trip", 0)
            /\ UNCHANGED route_stop_coords
       ELSE IF stop = ""
       THEN resp' = Resp("api_coords_delete", 400, "stop-required", 0)
            /\ UNCHANGED route_stop_coords
       ELSE /\ route_stop_coords' = route_stop_coords \ gone
            /\ resp' = Resp("api_coords_delete", 200, "", Cardinality(gone))
    /\ UNCHANGED <<fareVars, app_state, trips, seats, walk_on_sales, consignments,
                   consignment_photos, files, raceVars, speedVars, authVars,
                   stop_logs, bag_files>>

\* the event names stop events are logged with
EventInputs == {"arrive", " Depart", "boom"}
\* str.strip().lower() on the event names of the model ("" is no event)
strip_lower_event(event) ==
    IF event = "" THEN "arrive"
    ELSE IF event = " Depart" THEN "depart"
    ELSE event

\* _seats_count_for_stop
\* the count taken over the seats of every trip
seats_count_all_trips(tid, stop_name) ==
    Cardinality({r \in seats : r.stop = stop_name})

seats_count_for_stop(tid, stop_name) ==
    Cardinality({r \in seats : r.trip_id = tid /\ r.stop = stop_name})

\* GET /api/stoplog
api_stoplog_get ==
    LET tid == get_active_trip IN
    /\ resp' = IF tid = NULL THEN Resp("api_stoplog_get", 400, "no-active-trip", 0)
               ELSE Resp("api_stoplog_get", 200, "",
                         Cardinality({l \in stop_logs : l.trip_id = tid}))
    /\ readOnly

\* POST /api/stoplog without a distance
api_stoplog_post(stop_name, event_in) ==
    LET tid == get_active_trip
        event == strip_lower_event(event_in) IN
    /\ IF tid = NULL
       THEN resp' = Resp("api_stoplog", 400, "no-active-trip", 0) /\ UNCHANGED stop_logs
       ELSE IF stop_name = ""
       THEN resp' = Resp("api_stoplog", 400, "stop-required", 0) /\ UNCHANGED stop_logs
       ELSE IF ~validate_stop_for_active_trip(stop_name)
       THEN resp' = Resp("api_stoplog", 400, "stop-not-on-route", 0)
            /\ UNCHANGED stop_logs
       ELSE IF event \notin {"arrive", "depart", "approach"}
       THEN resp' = Resp("api_stoplog", 400, "event-invalid", 0) /\ UNCHANGED stop_logs
       ELSE /\ Cardinality(stop_logs) < MaxLogs
            /\ stop_logs' = stop_logs \cup
                   {[id |-> NewRowId(stop_logs), trip_id |-> tid,
                     stop_name |-> stop_name, event |-> event,
                     seats_for_stop |-> seats_count_for_stop(tid, stop_name)]}
            /\ resp' = Resp("api_stoplog", 200, "", 1)
    /\ UNCHANGED <<fareVars, app_state, trips, seats, walk_on_sales, consignments,
                   consignment_photos, files, raceVars, speedVars, authVars,
                   route_stop_coords, bag_files>>

\* GET /api/consignments
api_consignments_get ==
    LET tid == get_active_trip IN
    /\ resp' = IF tid = NULL THEN Resp("api_consignments_get", 400, "no-active-trip", 0)
               ELSE Resp("api_consignments_get", 200, "",
                         Cardinality({c \in consignments : c.trip_id = tid}))
    /\ readOnly

\* GET /api/consignments/<cid>/photos
api_cons_photos_get(cid) ==
    LET tid == get_active_trip IN
    /\ resp' = IF tid = NULL THEN Resp("api_cons_photos_get", 400, "no-active-trip", 0)
               ELSE Resp("api_cons_photos_get", 200, "",
                         Cardinality({p \in consignment_photos : p.consignment_id = cid}))
    /\ readOnly

(***************************** the API specification ************************)
InitApi == InitTables

\* the seats lists of the bulk writes of this specification
ApiBulkInputs ==
    { <<>>, <<SeatItem(3, "bay", FALSE, ""), SeatItem(4, "bayan", FALSE, "")>> }

\* the seat, walk-on, standing, coordinate, stop-event and consignment
\* requests
ApiRequest ==
    \/ api_seat_post(3, "Saraykoy", "bay", FALSE)
    \/ api_seat_delete(3)
    \/ \E items \in ApiBulkInputs : api_seats_bulk_post(items, "")
    \/ \E l \in SeatListInputs : api_seats_bulk_delete(l)
    \/ \E l \in SeatListInputs : api_seats_offload_alias(l)
    \/ api_walkon_get
    \/ api_walkon_post("Denizli otogar", "Saraykoy")
    \/ api_walkon_delete("Saraykoy")
    \/ api_standing_get
    \/ api_standing_post("Denizli otogar", "Saraykoy")
    \/ api_standing_delete("Saraykoy")
    \/ api_coords_get
    \/ api_coords_post("Saraykoy", 1, 2)
    \/ api_coords_delete("Saraykoy")
    \/ api_stoplog_get
    \/ api_stoplog_post("Saraykoy", "arrive")
    \/ api_consignments_get
    \/ api_consignments_post("", "Saraykoy")
    \/ \E cid \in 1..MaxConsignments : api_cons_photos_get(cid)
    \/ \E cid \in 1..MaxConsignments : api_cons_photos_post(cid)
    \/ \E cid \in 1..MaxConsignments : api_cons_delete(cid)

NextApi ==
    \/ \E r \in TripRouteInputs : trip_start(r)
    \/ end_trip
    \/ ApiRequest

SpecApi == InitApi /\ [][NextApi]_vars

(***************************** the other trip APIs: claims ******************)
\* C17: while no trip is active, every seat (single, bulk, offload),
\* walk-on, standing, stop-coordinate, stop-event and consignment request
\* is answered 400 and leaves every table and file unchanged.
C17_NoActiveTrip ==
    [][(get_active_trip = NULL /\ ApiRequest)
         => /\ resp'.code = 400 /\ resp'.msg = "no-active-trip"
            /\ UNCHANGED storedVars]_vars

\* a consignment delete refused after the trip was ended, its rows still there
C17_Witness ==
    /\ get_active_trip = NULL /\ trips # {}
    /\ resp = Resp("api_cons_delete", 400, "no-active-trip", 0)
    /\ consignments # {} /\ consignment_photos # {}

(***************************** photo uploads ********************************)
ALLOWED_IMAGE_EXTS == {".jpg", ".jpeg", ".png", ".webp"}
ALLOWED_IMAGE_MIMES == {"image/jpeg", "image/png", "image/webp"}

\* an uploaded file part: the file name as its stem and the text from its
\* last dot on ("" when the name has no dot), the MIME type the browser
\* reports, and whether the content decodes as an image
File(stem, ext, mime, image) ==
    [stem |-> stem, ext |-> ext, mime |-> mime, image |-> image]
NoFile == File("", "", "", FALSE)
FileInputs ==
    { File("foto", ".jpg", "image/jpeg", TRUE),
      File("foto", ".PNG", "image/png", TRUE),
      File("foto", ".jpg", "text/html", FALSE),
      File("kabuk", ".php", "image/jpeg", FALSE),
      File("kabuk", ".exe", "application/octet-stream", FALSE),
      File("foto", "", "image/jpeg", TRUE),
      NoFile }

\* str.lower() on the extensions of the model
LowerExt(ext) == IF ext = ".PNG" THEN ".png" ELSE ext

\* _allowed_file(filename)
allowed_file(f) ==
    /\ f.stem \o f.ext # ""
    /\ f.ext # ""
    /\ LowerExt(f.ext) \in ALLOWED_IMAGE_EXTS

\* POST /api/consignments/<cid>/photos with the file part f
api_cons_photos_upload(cid, f) ==
    LET tid == get_active_trip
        refuse(msg) ==
            /\ resp' = Resp("api_cons_photos", 400, msg, 0)
            /\ UNCHANGED <<app_state, trips, seats, walk_on_sales, consignments,
                           consignment_photos, files, fareVars, auxVars>> IN
    IF tid = NULL THEN refuse("no-active-trip")
    ELSE IF f.stem \o f.ext = "" THEN refuse("file-required")
    ELSE IF ~allowed_file(f) THEN refuse("extension")
    ELSE IF f.mime \notin ALLOWED_IMAGE_MIMES THEN refuse("mime")
    ELSE api_cons_photos_post(cid)

\* files the baggage handlers may leave under storage/bags
MaxBagFiles == 2

\* safe(s): keeps the letters, the digits, "-" and "_"
safe(s) == IF s = "../T1" THEN "T1" ELSE s
BagTripInputs == {"", "../T1"}
BagSeatInputs == {"", "12"}
BagFilesInputs ==
    { <<>> } \cup { <<f>> : f \in FileInputs }
    \cup { <<File("foto", ".jpg", "image/jpeg", TRUE),
             File("kabuk", ".exe", "application/octet-stream", FALSE)>> }

\* _check_csrf() of the bags blueprint: the form or header token against the
\* session's (an absent session token is None, which no supplied string equals)
bags_check_csrf(tok) == tok # 0 /\ tok = session.csrf_token

\* os.path.splitext(f.filename)[1] or ".jpg", lowered
bag_ext(f) == LowerExt(IF f.ext = "" THEN ".jpg" ELSE f.ext)

\* the upload loop: every part with a file name is saved under
\* seat_dir(trip, seat); ensure_thumb adds the thumbnail when the content
\* decodes, and passes over it when it does not
RECURSIVE bag_save(_, _, _, _)
bag_save(acc, d, fs, i) ==
    IF i > Len(fs) THEN acc
    ELSE IF fs[i].stem \o fs[i].ext = "" THEN bag_save(acc, d, fs, i + 1)
    ELSE bag_save(acc \cup {[dir |-> d, n |-> Cardinality(acc) + 1,
                             ext |-> bag_ext(fs[i]), thumb |-> fs[i].image]},
                  d, fs, i + 1)

bagFrame == <<fareVars, app_state, trips, seats, walk_on_sales, consignments,
              consignment_photos, files, raceVars, speedVars, authVars, logVars>>

\* POST /bags
gallery_post(trip, seat, tok, fs) ==
    /\ IF ~bags_check_csrf(tok)
       THEN resp' = Resp("gallery", 403, "csrf", 0) /\ UNCHANGED bag_files
       ELSE IF trip = "" \/ seat = ""
       THEN resp' = Resp("gallery", 302, "seats", 0) /\ UNCHANGED bag_files
       ELSE /\ bag_files' = bag_save(bag_files, <<safe(trip), safe(seat)>>, fs, 1)
            /\ Cardinality(bag_files') <= MaxBagFiles
            /\ resp' = Resp("gallery", 302, "",
                            Cardinality(bag_files') - Cardinality(bag_files))
    /\ UNCHANGED bagFrame

\* POST /bags/capture
capture_post(trip, seat, tok, fs) ==
    /\ IF ~bags_check_csrf(tok)
       THEN resp' = Resp("capture", 403, "csrf", 0) /\ UNCHANGED bag_files
       ELSE /\ bag_files' = bag_save(bag_files, <<safe(trip), safe(seat)>>, fs, 1)
            /\ Cardinality(bag_files') <= MaxBagFiles
            /\ resp' = Resp("capture", 200, "",
                            Cardinality(bag_files') - Cardinality(bag_files))
    /\ UNCHANGED bagFrame

InitUpload == InitTables

cons_upload == \E cid \in 1..MaxConsignments, f \in FileInputs : api_cons_photos_upload(cid, f)
bags_gallery ==
    \E t \in BagTripInputs, s \in BagSeatInputs, tok \in 0..issued, fs \in BagFilesInputs :
        gallery_post(t, s, tok, fs)
bags_capture ==
    \E t \in BagTripInputs, s \in BagSeatInputs, tok \in 0..issued, fs \in BagFilesInputs :
        capture_post(t, s, tok, fs)

NextUpload ==
    \/ \E r \in TripRouteInputs : trip_start(r)
    \/ end_trip
    \/ api_consignments_post("", "Saraykoy")
    \/ login_get
    \/ cons_upload
    \/ bags_gallery
    \/ bags_capture

SpecUpload == InitUpload /\ [][NextUpload]_vars

\* a file part the allow-list excludes
outside_allow_list(f) ==
    \/ LowerExt(f.ext) \notin ALLOWED_IMAGE_EXTS
    \/ f.mime \notin ALLOWED_IMAGE_MIMES

\* C18: every photo upload, for consignment evidence and for baggage photos
\* alike, whose file extension is outside {.jpg, .jpeg, .png, .webp} or whose
\* reported MIME type is outside {image/jpeg, image/png, image/webp} is
\* rejected and leaves no file on disk and no photo row.  (A POST /bags
\* that names no trip or no seat is sent back to the seat screen before
\* its files are looked at: it is not counted as an upload here.)
C18_UploadAllowList ==
    [][\A f \in FileInputs \ {NoFile} :
         (/\ outside_allow_list(f)
          /\ \/ \E cid \in 1..MaxConsignments : api_cons_photos_upload(cid, f)
             \/ \E t \in BagTripInputs \ {""}, s \in BagSeatInputs \ {""}, tok \in 0..issued :
                    gallery_post(t, s, tok, <<f>>) \/ capture_post(t, s, tok, <<f>>))
         => /\ resp'.code >= 400
            /\ UNCHANGED <<files, consignment_photos, bag_files>>]_vars

\* a baggage upload has left a file outside the allow-list on disk
C18_Witness ==
    /\ resp.op \in {"gallery", "capture"} /\ resp.code < 400 /\ resp.rows > 0
    /\ \E b \in bag_files : b.ext \notin ALLOWED_IMAGE_EXTS

(***************************** racing seat writes ***************************)
TICKET_TYPES == {"biletli", "biletsiz", "ucretsiz"}
PAYMENT_TYPES == {"nakit", "iban", "online", "pos", "ucretsiz"}

\* str.strip().lower() on the ticket, payment and service strings of the model
strip_lower(val) ==
    CASE val = " Biletli" -> "biletli"
      [] val = "POS" -> "pos"
      [] val = " On " -> "on"
      [] OTHER -> val

norm_ticket_type(val) ==
    LET v == strip_lower(val) IN IF v \in TICKET_TYPES THEN v ELSE "biletsiz"

norm_payment(val) ==
    LET v == strip_lower(val) IN IF v \in PAYMENT_TYPES THEN v ELSE "nakit"

\* norm_bool on the strings a form sends
norm_bool(val) ==
    IF strip_lower(val) \in {"1", "true", "yes", "on"} THEN 1 ELSE 0

\* the JSON body of a POST /api/seat, less its seat_no
SeatData(stop, ticket_type, payment, amount, gender, pair_ok, service, service_note) ==
    [stop |-> stop, ticket_type |-> ticket_type, payment |-> payment,
     amount |-> amount, gender |-> gender, pair_ok |-> pair_ok,
     service |-> service, service_note |-> service_note]
SeatDataInputs ==
    { SeatData("Saraykoy", " Biletli", "POS", 100, "bay", FALSE, " On ", "su"),
      SeatData("Alasehir", "ucretsiz", "havale", 0, " Bayan", TRUE, "", ""),
      SeatData("", "", "", 250, "", FALSE, "1", "cay") }
RaceSeatInputs == {3}

\* the parameters api_seat binds to its INSERT
seat_values(tid, seat_no, data) ==
    [trip_id |-> tid, seat_no |-> seat_no, stop |-> data.stop,
     ticket_type |-> norm_ticket_type(IF data.ticket_type = "" THEN "biletsiz"
                                      ELSE data.ticket_type),
     payment |-> norm_payment(IF data.payment = "" THEN "nakit" ELSE data.payment),
     amount |-> data.amount,
     gender |-> norm_gender(data.gender),
     pair_ok |-> IF data.pair_ok THEN 1 ELSE 0,
     service |-> norm_bool(data.service),
     service_note |-> data.service_note]

\* the rows of seats with the key of the row v
same_key(v) == {r \in seats : r.trip_id = v.trip_id /\ r.seat_no = v.seat_no}

\* a request number no request in flight carries
free_req == CHOOSE n \in 1..MaxInflight : \A q \in inflight : q.req # n

SeatWrite == {q \in inflight : q.op = "seat"}

seatRaceFrame == <<app_state, trips, walk_on_sales, consignments, consignment_photos,
                   files, fareVars, notRaceVars>>

\* POST /api/seat up to its INSERT: the active trip, the stop and the
\* neighbour rule are read; the request then waits for the write lock
api_seat_read(seat_no, data) ==
    LET tid == get_active_trip
        v == seat_values(tid, seat_no, data) IN
    /\ Cardinality(inflight) < MaxInflight
    /\ IF tid = NULL
       THEN resp' = Resp("api_seat", 400, "no-active-trip", 0) /\ UNCHANGED inflight
       ELSE IF data.stop # "" /\ ~validate_stop_for_active_trip(data.stop)
       THEN resp' = Resp("api_seat", 400, "stop-not-on-route", 0) /\ UNCHANGED inflight
       ELSE IF ~neighbor_rule_ok(tid, seat_no, v.gender, data.pair_ok)
       THEN resp' = Resp("api_seat", 400, "neighbor", 0) /\ UNCHANGED inflight
       ELSE /\ inflight' = inflight \cup {[op |-> "seat", req |-> free_req, values |-> v]}
            /\ UNCHANGED resp
    /\ UNCHANGED <<seats, seatRaceFrame>>

\* the upsert whose conflict clause sets the stop alone
api_seat_write_stop_only(q) ==
    /\ q.op = "seat"
    /\ seats' = IF same_key(q.values) = {} THEN seats \cup {q.values}
                ELSE (seats \ same_key(q.values)) \cup
                     {[r EXCEPT !.stop = q.values.stop] : r \in same_key(q.values)}
    /\ inflight' = inflight \ {q}
    /\ resp' = Resp("api_seat", 200,
                    IF same_key(q.values) = {} THEN "" ELSE "conflict", 1)
    /\ UNCHANGED seatRaceFrame

\* INSERT ... ON CONFLICT(trip_id, seat_no) DO UPDATE SET every other column
\* = excluded's; db.commit().  One statement under SQLite's write lock.
api_seat_write(q) ==
    /\ q.op = "seat"
    /\ seats' = (seats \ same_key(q.values)) \cup {q.values}
    /\ inflight' = inflight \ {q}
    /\ resp' = Resp("api_seat", 200,
                    IF same_key(q.values) = {} THEN "" ELSE "conflict", 1)
    /\ UNCHANGED seatRaceFrame

InitSeatRace == InitTables

NextSeatRace ==
    \/ \E r \in TripRouteInputs : trip_start(r)
    \/ \E s \in RaceSeatInputs, data \in SeatDataInputs : api_seat_read(s, data)
    \/ \E q \in inflight : api_seat_write(q)

SpecSeatRace == InitSeatRace /\ [][NextSeatRace]_vars

\* C19: under every interleaving of seat writes for the same (trip, seat
\* number) the seats table holds exactly one row for that key, and after each
\* committed write that row is, in every field, the row of that write: the
\* last committed write wins whole, and no step other than a commit changes
\* the table.
C19_LastWriteWins ==
    /\ [](\A r1, r2 \in seats :
            (r1.trip_id = r2.trip_id /\ r1.seat_no = r2.seat_no) => r1 = r2)
    /\ [][/\ \A q \in SeatWrite :
               api_seat_write(q) =>
                 /\ {r \in seats' : r.trip_id = q.values.trip_id
                                    /\ r.seat_no = q.values.seat_no} = {q.values}
                 /\ seats' \ {q.values} = seats \ same_key(q.values)
          /\ (\A q \in SeatWrite : ~api_seat_write(q)) => UNCHANGED seats]_vars

\* a write has just overwritten the row of an earlier write of the same seat
\* with other values, while a third write of that seat is still in flight
C19_Witness ==
    /\ resp = Resp("api_seat", 200, "conflict", 1)
    /\ \E r \in seats, q \in SeatWrite :
         /\ r.trip_id = q.values.trip_id /\ r.seat_no = q.values.seat_no
         /\ r.stop # q.values.stop /\ r.payment # q.values.payment
         /\ r.ticket_type = "biletli" /\ r.service = 1

(***************************** unknown ids **********************************)
RouteNameInputs == {"", "Ozel Hat", "Yeni Hat"}
\* ids a request may name: those the tables can hold and one beyond
CidInputs == 1..(MaxConsignments + 1)
RidInputs == 1..(MaxRouteId + 1)

\* GET, POST /hat/<rid>/duzenle
route_edit(rid, method, name, stops_text) ==
    LET row == {r \in routes : r.id = rid}
        stops == parse_stops(stops_text) IN
    /\ IF row = {}
       THEN resp' = Resp("route_edit", 404, "not-found", 0) /\ UNCHANGED routes
       ELSE IF method = "GET"
       THEN resp' = Resp("route_edit", 200, "", 0) /\ UNCHANGED routes
       ELSE IF name = "" \/ Len(stops) = 0
       THEN resp' = Resp("route_edit", 400, "name-and-stops-required", 0)
            /\ UNCHANGED routes
       ELSE IF \E r \in routes \ row : r.name = name
       THEN resp' = Resp("route_edit", 500, "unique-name", 0) /\ UNCHANGED routes
       ELSE /\ routes' = (routes \ row) \cup
                         {[id |-> rid, name |-> name, stops |-> stops]}
            /\ resp' = Resp("route_edit", 302, "", 1)
    /\ UNCHANGED <<fares, quote, app_state, trips, seats, walk_on_sales, consignments,
                   consignment_photos, files, auxVars>>

InitNotFound == InitTables

NextNotFound ==
    \/ \E r \in TripRouteInputs : trip_start(r)
    \/ end_trip
    \/ api_consignments_post("", "Saraykoy")
    \/ \E cid \in CidInputs : api_cons_photos_post(cid)
    \/ \E cid \in CidInputs : api_cons_delete(cid)
    \/ \E t \in StopsTextInputs : add_route("Ozel Hat", t)
    \/ \E rid \in RidInputs, m \in {"GET", "POST"}, n \in RouteNameInputs,
          t \in StopsTextInputs : route_edit(rid, m, n, t)

SpecNotFound == InitNotFound /\ [][NextNotFound]_vars

\* no consignment of the active trip has the id cid
cons_unknown(cid) ==
    ~\E c \in consignments : c.id = cid /\ c.trip_id = get_active_trip

\* C20: while a trip is active, a photo upload or a consignment delete
\* addressed to a consignment id that does not exist, or that does not belong
\* to the active trip, is answered with 404; a request to edit a route id
\* that does not exist is answered with 404.
C20_NotFound ==
    [][/\ \A cid \in CidInputs :
            (/\ get_active_trip # NULL /\ cons_unknown(cid)
             /\ api_cons_photos_post(cid) \/ api_cons_delete(cid))
            => resp'.code = 404
       /\ \A rid \in RidInputs, m \in {"GET", "POST"}, n \in RouteNameInputs,
             t \in StopsTextInputs :
            ((~\E r \in routes : r.id = rid) /\ route_edit(rid, m, n, t))
            => resp'.code = 404]_vars

\* a delete answered 200 has removed the photos of a consignment of another
\* trip, which itself is still in the table
C20_Witness ==
    /\ resp.op = "api_cons_delete" /\ resp.code = 200 /\ resp.rows > 0
    /\ get_active_trip # NULL
    /\ \E c \in consignments :
         /\ c.trip_id # get_active_trip
         /\ ~\E p \in consignment_photos : p.consignment_id = c.id
    /\ consignment_photos = {}

(***************************** stops of the writes **************************)
StopTripRouteInputs == {"Denizli - Istanbul", "Denizli - Izmir"}
\* stops a write may name: one on the list of one of the two routes only, one
\* on neither ("Saraykoy", on both, fills the other stop field of a write)
WriteStopInputs == {"Alasehir", "Konya"}

\* the stop list validate_stop_for_active_trip compares with
active_stops ==
    LET rows == {t \in trips : t.id = get_active_trip} IN
    IF rows = {} THEN <<>> ELSE get_stops((CHOOSE t \in rows : TRUE).route)

\* the writes that name the stop st, each in every field that takes a stop
seat_write_at(st) ==
    \/ api_seat_post(3, st, "bay", FALSE)
    \/ api_seats_bulk_post(<<SeatItem(3, "bay", FALSE, "Saraykoy"), SeatItem(3, "bay", FALSE, st)>>, "")
    \/ api_seats_bulk_post(<<SeatItem(3, "bay", FALSE, "")>>, st)
sale_at(st) ==
    \/ api_walkon_post(st, "Saraykoy") \/ api_walkon_post("Saraykoy", st)
    \/ api_standing_post(st, "Saraykoy") \/ api_standing_post("Saraykoy", st)
log_at(st) ==
    \/ api_coords_post(st, 1, 2)
    \/ api_stoplog_post(st, "arrive")
consignment_at(st) ==
    \/ api_consignments_post(st, "Saraykoy") \/ api_consignments_post("", st)
StopWrite(st) == seat_write_at(st) \/ sale_at(st) \/ log_at(st) \/ consignment_at(st)

InitStops == InitTables

NextStops ==
    \/ \E r \in StopTripRouteInputs : trip_start(r)
    \/ \E st \in WriteStopInputs : seat_write_at(st)
    \/ \E st \in WriteStopInputs : sale_at(st)
    \/ \E st \in WriteStopInputs : log_at(st)
    \/ \E st \in WriteStopInputs : consignment_at(st)

SpecStops == InitStops /\ [][NextStops]_vars

\* the stops of the rows a step has added to, or rewritten in, the five tables
stops_written ==
    {r.stop : r \in seats' \ seats} \cup {r.stop : r \in route_stop_coords' \ route_stop_coords}
    \cup {r.stop_name : r \in stop_logs' \ stop_logs}
    \cup UNION {{r.from_stop, r.to_stop} : r \in walk_on_sales' \ walk_on_sales}
    \cup UNION {{r.from_stop, r.to_stop} : r \in consignments' \ consignments}

\* C21: a seat write (single or bulk item), walk-on sale, stop-coordinate
\* write, stop-event append or consignment create that names a non-empty stop
\* outside the stop list of the active trip's route is answered 400 and
\* stores nothing; every stop a step stores is empty or on that list at the
\* time of the write.
C21_StopValidation ==
    [][/\ \A st \in WriteStopInputs :
            (get_active_trip # NULL /\ ~InList(active_stops, st) /\ StopWrite(st))
            => resp'.code = 400 /\ UNCHANGED storedVars
       /\ \A st \in stops_written : st = "" \/ InList(active_stops, st)]_vars

\* a stop of the other route's list has just been refused on a trip that
\* already holds rows with stops of its own list
C21_Witness ==
    /\ resp.code = 400 /\ resp.msg = "stop-not-on-route"
    /\ \E t \in trips : t.id = get_active_trip /\ t.route = "Denizli - Izmir"
    /\ \E r \in walk_on_sales : r.trip_id = get_active_trip /\ r.to_stop = "Alasehir"
    /\ \E r \in seats : r.trip_id = get_active_trip /\ r.stop = "Alasehir"
    /\ stop_logs # {} /\ route_stop_coords # {} /\ consignments # {}

(***************************** stop-event log *******************************)
LogStopInputs == {"Saraykoy", "Konya"}

InitLog == InitTables

NextLog ==
    \/ \E r \in TripRouteInputs : trip_start(r)
    \/ end_trip
    \/ \E s \in {3, 5} : api_seat_post(s, "Saraykoy", "bay", FALSE)
    \/ api_seat_delete(3)
    \/ api_seats_offload_alias(<<3, 5>>)
    \/ api_stoplog_get
    \/ \E st \in LogStopInputs, ev \in EventInputs : api_stoplog_post(st, ev)

SpecLog == InitLog /\ [][NextLog]_vars

\* C22: no request modifies or deletes a stop_logs row; the table changes
\* only by a successful stop-event append, which adds exactly one row whose
\* event is approach, arrive or depart and whose seat count is the number of
\* seat rows of the active trip with that stop at that moment.
C22_AppendOnly ==
    [][/\ stop_logs \subseteq stop_logs'
       /\ stop_logs' # stop_logs =>
            /\ \E st \in LogStopInputs, ev \in EventInputs : api_stoplog_post(st, ev)
            /\ resp'.op = "api_stoplog" /\ resp'.code = 200
            /\ Cardinality(stop_logs' \ stop_logs) = 1
            /\ \A r \in stop_logs' \ stop_logs :
                 /\ r.id \notin {o.id : o \in stop_logs}
                 /\ r.trip_id = get_active_trip
                 /\ r.event \in {"approach", "arrive", "depart"}
                 /\ r.seats_for_stop =
                      Cardinality({x \in seats : x.trip_id = get_active_trip
                                                 /\ x.stop = r.stop_name})]_vars

\* two events logged with different seat counts are still in the table after
\* the trip was ended and its seats deleted
C22_Witness ==
    /\ resp.op = "end_trip" /\ seats = {} /\ get_active_trip = NULL
    /\ \E a, b \in stop_logs :
         /\ a.trip_id = b.trip_id /\ a.id < b.id
         /\ a.seats_for_stop = 2 /\ b.seats_for_stop = 0 /\ b.event = "depart"

(***************************** racing trip starts ***************************)
TripStart == {q \in inflight : q.op = "trip_start"}

tripRaceFrame == <<seats, walk_on_sales, consignments, consignment_photos, files,
                   fareVars, notRaceVars>>

\* POST /sefer-baslat up to its first commit: the trip row is inserted and
\* its rowid read back on the request's own connection
trip_start_insert(route) ==
    LET trip_id == NewRowId(trips) IN
    /\ trip_id <= MaxTrips
    /\ Cardinality(inflight) < MaxInflight
    /\ trips' = trips \cup {[id |-> trip_id, route |-> route]}
    /\ inflight' = inflight \cup {[op |-> "trip_start", req |-> free_req,
                                   trip_id |-> trip_id]}
    /\ UNCHANGED <<app_state, resp, tripRaceFrame>>

\* set_active_trip that points at the trip inserted last
trip_start_set_active_latest(q) ==
    /\ q.op = "trip_start"
    /\ app_state' = set_active_trip(Max({t.id : t \in trips}))
    /\ inflight' = inflight \ {q}
    /\ resp' = Resp("trip_start", 302, "", 1)
    /\ UNCHANGED <<trips, tripRaceFrame>>

\* set_active_trip(trip_id), a second transaction, and the redirect
trip_start_set_active(q) ==
    /\ q.op = "trip_start"
    /\ app_state' = set_active_trip(q.trip_id)
    /\ inflight' = inflight \ {q}
    /\ resp' = Resp("trip_start", 302, "", 1)
    /\ UNCHANGED <<trips, tripRaceFrame>>

InitTripRace == InitTables

\* the seat writes are served one at a time between the steps of the starts
NextTripRace ==
    \/ \E r \in TripRouteInputs : trip_start_insert(r)
    \/ \E q \in inflight : trip_start_set_active(q)
    \/ \E s \in {3, 4}, st \in SeatStopInputs : api_seat_post(s, st, "bay", FALSE)
    \/ \E s \in {3, 4} : api_seat_delete(s)

SpecTripRace == InitTripRace /\ [][NextTripRace]_vars

\* C23: in every interleaving of trip starts each completing request leaves
\* the pointer on its own trip, so once all have completed the pointer is on
\* one of the started trips; that it can be the one inserted first is the
\* state C23_Witness.
C23_TripStartRace ==
    /\ []((TripStart = {} /\ trips # {}) => get_active_trip \in {t.id : t \in trips})
    /\ [](get_active_trip = NULL \/ get_active_trip \in {t.id : t \in trips})
    /\ [][\A q \in TripStart :
            trip_start_set_active(q) =>
              /\ get_active_trip' = q.trip_id
              /\ q.trip_id \in {t.id : t \in trips}]_vars

\* both of two trip starts have completed, both rows are in the table, and
\* the pointer is on the trip inserted first, whose seat map is being filled
C23_Witness ==
    /\ TripStart = {} /\ Cardinality(trips) = 2
    /\ get_active_trip = 1 /\ Max({t.id : t \in trips}) = 2
    /\ resp.op = "api_seat" /\ resp.code = 200
    /\ \E r \in seats : r.trip_id = 1

(***************************** neighbor pairs in the table ******************)
\* the pairs of rows of one trip on the two seats of a mapped pair that hold
\* "bay" and "bayan" with both stored flags unset
unflagged_pairs ==
    {<<a, b>> \in seats \X seats :
        /\ a.trip_id = b.trip_id
        /\ <<a.seat_no, b.seat_no>> \in NEIGHBOR_PAIRS
        /\ {a.gender, b.gender} = {"bay", "bayan"}
        /\ a.pair_ok = 0 /\ b.pair_ok = 0}

\* C24: in every state reached by single-seat writes and seat deletes served
\* one at a time, no mapped neighbor pair of a trip holds "bay" on one seat
\* and "bayan" on the other with both stored pair-exception flags unset.
C24_NeighborInvariant == unflagged_pairs = {}

\* seat 3 holds "bay" with the flag, seat 4 "bayan" without it, and the
\* rewrite of seat 3 that would clear the flag has just been refused
C24_Witness ==
    /\ resp = Resp("api_seat", 400, "neighbor", 0)
    /\ \E a, b \in seats :
         /\ a.trip_id = get_active_trip /\ b.trip_id = get_active_trip
         /\ a.seat_no = 3 /\ a.gender = "bay" /\ a.pair_ok = 1
         /\ b.seat_no = 4 /\ b.gender = "bayan" /\ b.pair_ok = 0

(***************************** bulk seat writes *****************************)
\* bulk requests: the two seats of the pair 3/4 with opposite genders and no
\* flag; a first item that passes followed by one whose seat_no is no integer,
\* by one whose stop is off the route, and by one the neighbor rule refuses
\* once seat 3 holds "bay"; a list that passes
SeatsBulkInputs ==
    { <<SeatItem(3, "bay", FALSE, ""), SeatItem(4, "bayan", FALSE, "")>>,
      <<SeatItem(1, "bay", FALSE, ""), SeatItem(BadSeatNo, "", FALSE, "")>>,
      <<SeatItem(1, "bay", FALSE, ""), SeatItem(5, "", FALSE, "Alasehir")>>,
      <<SeatItem(1, "bayan", FALSE, "Saraykoy"), SeatItem(4, "bayan", FALSE, "")>>,
      <<SeatItem(1, "", FALSE, ""), SeatItem(5, "bay", TRUE, "")>> }

\* the default stop of a bulk request
BulkStopInputs == {"Saraykoy"}

InitBulk == InitTables

NextBulk ==
    \/ \E r \in TripRouteInputs : trip_start(r)
    \/ end_trip
    \/ api_seat_post(3, "", "bay", FALSE)
    \/ \E items \in SeatsBulkInputs, st \in BulkStopInputs : api_seats_bulk_post(items, st)
    \/ \E l \in SeatListInputs : api_seats_bulk_delete(l)

SpecBulk == InitBulk /\ [][NextBulk]_vars

\* two items of the list put opposite genders on the two seats of a mapped
\* pair and neither item sets the flag
batch_conflict(items) ==
    \E i, j \in 1..Len(items) :
        /\ <<items[i].seat_no, items[j].seat_no>> \in NEIGHBOR_PAIRS
        /\ {norm_gender(items[i].gender), norm_gender(items[j].gender)} = {"bay", "bayan"}
        /\ ~items[i].pair_ok /\ ~items[j].pair_ok

\* C25: a bulk seat write is rejected whenever two of its own items assign
\* opposite genders to the two seats of a mapped neighbor pair with neither
\* item's flag set, so a bulk write never leaves such a pair in the seats
\* table.
C25_BulkNeighborRule ==
    [][\A items \in SeatsBulkInputs, st \in BulkStopInputs :
          (get_active_trip # NULL /\ api_seats_bulk_post(items, st))
          => /\ batch_conflict(items) => (resp'.code = 400 /\ seats' = seats)
             /\ unflagged_pairs = {} => unflagged_pairs' = {}]_vars

\* a bulk write answered 200 has left "bay" and "bayan" on seats 3 and 4 of
\* the active trip with both flags unset
C25_Witness ==
    /\ resp.op = "api_seats_bulk" /\ resp.code = 200
    /\ \E p \in unflagged_pairs : p[1].trip_id = get_active_trip

\* C26: when any item of a bulk seat write is rejected (seat number not an
\* integer, stop not on the route, neighbor rule violated) the seats table is
\* unchanged, also for the items that preceded the rejected one.
C26_BulkAllOrNothing ==
    [][\A items \in SeatsBulkInputs, st \in BulkStopInputs :
          (api_seats_bulk_post(items, st) /\ resp'.code # 200)
          => /\ resp'.code = 400
             /\ seats' = seats
             /\ \A k \in 1..Len(items) :
                  bulk_row(get_active_trip, items[k], st) \in seats'
                  => bulk_row(get_active_trip, items[k], st) \in seats]_vars

\* a bulk write has just been refused for its second item by the neighbor
\* rule, and the seat of its first item holds no row
C26_Witness ==
    /\ resp = Resp("api_seats_bulk", 400, "neighbor", 0)
    /\ get_active_trip # NULL
    /\ \E r \in seats : r.trip_id = get_active_trip /\ r.seat_no = 3 /\ r.gender = "bay"
    /\ ~\E r \in seats : r.trip_id = get_active_trip /\ r.seat_no \in {1, 4}

(***************************** rows of trips that are not active ************)
\* the seat rows and the walk-on rows of the trip tid
rows_of(tid) ==
    {r \in seats : r.trip_id = tid} \cup {w \in walk_on_sales : w.trip_id = tid}

\* C27: in every state reached by trip-start, seat-write, walk-on and
\* end-trip requests served one at a time, a trip that is not the active trip
\* has no seat rows and no walk-on rows.
C27_OnlyActiveTripRows ==
    \A t \in trips : t.id # get_active_trip => rows_of(t.id) = {}

\* trip 2 was started while trip 1 was active and has been ended; no trip is
\* active and trip 1 still has a seat row and a walk-on row
C27_Witness ==
    /\ resp.op = "end_trip" /\ get_active_trip = NULL
    /\ Cardinality(trips) = 2
    /\ \E r \in seats : r.trip_id = 1
    /\ \E w \in walk_on_sales : w.trip_id = 1
    /\ rows_of(2) = {}

(***************************** end trip against writes in flight ************)
WalkonWrite == {q \in inflight : q.op = "walkon"}

\* POST /api/walkon up to its INSERT: the active trip and the two stops are
\* read; the request then waits for the write lock
api_walkon_read(from_stop, to_stop) ==
    LET tid == get_active_trip IN
    /\ Cardinality(inflight) < MaxInflight
    /\ IF tid = NULL
       THEN resp' = Resp("api_walkon", 400, "no-active-trip", 0) /\ UNCHANGED inflight
       ELSE IF ~validate_stop_for_active_trip(from_stop)
               \/ ~validate_stop_for_active_trip(to_stop)
       THEN resp' = Resp("api_walkon", 400, "stop-not-on-route", 0) /\ UNCHANGED inflight
       ELSE /\ inflight' = inflight \cup
                  {[op |-> "walkon", req |-> free_req,
                    values |-> [trip_id |-> tid, from_stop |-> from_stop,
                                to_stop |-> to_stop]]}
            /\ UNCHANGED resp
    /\ UNCHANGED <<seats, seatRaceFrame>>

\* INSERT INTO walk_on_sales of the trip read before; db.commit()
api_walkon_write(q) ==
    /\ q.op = "walkon"
    /\ Cardinality(walk_on_sales) < MaxWalkons
    /\ walk_on_sales' = walk_on_sales \cup
           {[id |-> NewRowId(walk_on_sales), trip_id |-> q.values.trip_id,
             from_stop |-> q.values.from_stop, to_stop |-> q.values.to_stop]}
    /\ inflight' = inflight \ {q}
    /\ resp' = Resp("api_walkon", 200, "", 1)
    /\ UNCHANGED <<seats, app_state, trips, consignments, consignment_photos, files,
                   fareVars, notRaceVars>>

InitEndRace == InitTables

NextEndRace ==
    \/ \E r \in TripRouteInputs : trip_start(r)
    \/ end_trip
    \/ \E data \in SeatDataInputs : api_seat_read(3, data)
    \/ \E q \in inflight : api_seat_write(q)
    \/ api_walkon_read("Denizli otogar", "Saraykoy")
    \/ \E q \in inflight : api_walkon_write(q)

SpecEndRace == InitEndRace /\ [][NextEndRace]_vars

\* the trips an end-trip request has completed for: with the starts served
\* one at a time the trip started last stays active until an end-trip
ended_trips ==
    IF trips # {} /\ get_active_trip = NULL THEN {Max({t.id : t \in trips})} ELSE {}

\* C28: once an end-trip request for trip T has completed no seat row and no
\* walk-on row of T exists, also when a seat write or walk-on sale that read
\* T as the active trip before the end-trip performs its insert afterwards.
C28_EndTripFinal == \A tid \in ended_trips : rows_of(tid) = {}

\* the only trip has been ended, and a seat write and a walk-on sale that had
\* read it as active have since inserted their rows for it
C28_Witness ==
    /\ Cardinality(trips) = 1 /\ get_active_trip = NULL /\ inflight = {}
    /\ \E r \in seats : r.trip_id = 1
    /\ \E w \in walk_on_sales : w.trip_id = 1

(***************************** scope of the consignment delete **************)
\* C29: a consignment delete for an id that belongs to a trip other than the
\* active one, or to no consignment, leaves the consignment rows, the photo
\* rows and the photo files unchanged.
C29_DeleteScoped ==
    [][\A cid \in CidInputs :
          (get_active_trip # NULL /\ cons_unknown(cid) /\ api_cons_delete(cid))
          => UNCHANGED <<consignments, consignment_photos, files>>]_vars

\* a consignment of trip 1 is still in the table while trip 2 is active, and
\* a delete has just removed both of its photo rows and both files
C29_Witness ==
    /\ resp = Resp("api_cons_delete", 200, "", 2)
    /\ get_active_trip = 2
    /\ \E c \in consignments : c.trip_id = 1
    /\ consignment_photos = {} /\ files = {}

(***************************** editing a built-in route *********************)
BuiltinNameInputs == {"Denizli - Istanbul", "Denizli - Izmir", "Ozel Hat"}
EditNameInputs == {"Denizli - Istanbul", "Yeni Hat"}

\* materialize_builtin_route(name): INSERT OR REPLACE of the constant list
\* under the name; a row of that name is deleted and the new row takes the
\* next rowid
materialize_builtin_route(name) ==
    {r \in routes : r.name # name}
    \cup {[id |-> NewRowId(routes), name |-> name, stops |-> ROUTE_STOPS[name]]}

\* GET /hat/builtin/duzenle?name=...
builtin_route_edit(name) ==
    /\ IF name \notin DOMAIN ROUTE_STOPS
       THEN resp' = Resp("builtin_route_edit", 404, "not-found", 0) /\ UNCHANGED routes
       ELSE /\ NewRowId(routes) <= MaxBuiltinRowId
            /\ routes' = materialize_builtin_route(name)
            /\ resp' = Resp("builtin_route_edit", 302, "", 1)
    /\ UNCHANGED <<fares, quote, app_state, trips, seats, walk_on_sales, consignments,
                   consignment_photos, files, auxVars>>

InitRoutes == InitTables

NextRoutes ==
    \/ \E n \in BuiltinNameInputs : builtin_route_edit(n)
    \/ \E rid \in 1..MaxBuiltinRowId, m \in {"GET", "POST"}, n \in EditNameInputs,
          t \in StopsTextInputs : route_edit(rid, m, n, t)
    \/ \E rid \in 1..MaxBuiltinRowId : route_delete(rid)
    \/ \E r \in StopTripRouteInputs : trip_start(r)
    \/ api_seat_post(3, "Buldan", "bay", FALSE)

SpecRoutes == InitRoutes /\ [][NextRoutes]_vars

\* C30: opening a built-in route for editing copies its constant stop list
\* into the routes table only when no database route of that name exists;
\* when one exists its stop list and id are left unchanged, so opening the
\* editor again changes nothing and stop lookups keep returning the edited
\* list.
C30_CopyOnEditKeepsOverride ==
    [][\A n \in BuiltinNameInputs :
          (builtin_route_edit(n) /\ n \in DOMAIN ROUTE_STOPS)
          => IF \E r \in routes : r.name = n
             THEN routes' = routes /\ get_stops(n)' = get_stops(n)
             ELSE get_stops(n)' = ROUTE_STOPS[n]]_vars

\* the editor of a built-in route has been opened over a row of that name,
\* which now has a new id and the constant list again
C30_Witness ==
    /\ resp = Resp("builtin_route_edit", 302, "", 1)
    /\ \E r \in routes :
         /\ r.name = "Denizli - Izmir" /\ r.id > 1
         /\ r.stops = ROUTE_STOPS["Denizli - Izmir"]
    /\ \E r \in routes :
         /\ r.name = "Denizli - Istanbul" /\ r.stops # ROUTE_STOPS["Denizli - Istanbul"]

====
